---------------------------- MODULE Spec2Model ----------------------------
(***************************************************************************)
(* A model of the munix kernel's VFS core: the driver registries, the      *)
(* mount table and path router, the ramdisk, the CPIO "newc" filesystem    *)
(* driver, the VFS file object, and the TTY line discipline over the       *)
(* serial port.  Bytes are integers 0..255, C strings are sequences of     *)
(* bytes without the terminating NUL, a null pointer is the string "NULL" *)
(* (for operation tables) or -1 (for indices).  The target is i386:        *)
(* long, loff_t, ssize_t and size_t are 32 bits wide.                      *)
(***************************************************************************)
EXTENDS Integers, Sequences, FiniteSets, TLC

VARIABLES
    chrdev_drivers,  \* vfs_file.c: chrdev_drivers[MAJORS_MAX]
    fs_drivers,      \* vfs_fs.c: fs_drivers[FSTYPES_MAX]
    superblocks,     \* vfs_fs.c: superblocks[SB_MAX]
    vfs_mount_list,  \* vfs_fs.c: the mount list, as the sequence of superblock indices
    ramdisks,        \* ramdisk.c: ramdisks[RAMDISKS_MAX]
    files,           \* the callers' struct file objects, by handle
    opened,          \* history: the handles opened successfully and not yet closed
    cfdatas,         \* cpiofs.c: cfdatas[MAX_CPIO_OPEN]
    serials,         \* serial.c: serials[], by minor
    uart_rx,         \* bytes the UART of serial 1 has received and not yet handed over
    uart_tx,         \* bytes written to the data register of serial 1
    wire,            \* bytes still to arrive at the UART of serial 1
    ttys,            \* tty.c: ttys[TTY_CT]
    port_log,        \* history: every byte tty.c has written to its port device
    taken,           \* history: every byte tty_read has pulled from the port device
    given,           \* history: every byte tty_read has copied out to its callers
    modes,           \* history: the flag words tty_inchar has run under
    ksh,             \* kshell.c: the shell, and where kshell_init_run stands
    ret              \* the last call: its name, arguments, return value and output

vars == <<chrdev_drivers, fs_drivers, superblocks, vfs_mount_list, ramdisks,
          files, opened, cfdatas, serials, uart_rx, uart_tx, wire, ttys, port_log,
          taken, given, modes, ksh, ret>>

regVars  == <<chrdev_drivers, fs_drivers>>
mntVars  == <<superblocks, vfs_mount_list>>
fileVars == <<files, opened, cfdatas>>
ttyVars  == <<serials, uart_rx, uart_tx, wire, ttys, port_log, taken, given, modes>>

-----------------------------------------------------------------------------
(* errno.h *)
ENOMEM    == 5
EOVERFLOW == 6
ENOTSUP   == 8
EINVAL    == 9
EBUSY     == 12
EAGAIN    == 15
EIO       == 20
ENOBUFS   == 21
ENODEV    == 26
ENOENT    == 33
ENOTDIR   == 35

(* devices.h *)
MAJ_SERIAL  == 2
MAJ_TTY     == 3
MAJ_RAMDISK == 4
MAJORS_MAX  == 5
FS_CPIO     == 3
FSTYPES_MAX == 4
SRL_ICRNL   == 1
SRL_OCRNL   == 2
TTY_ECHO    == 1
TTY_ECHOCTL == 2
TTY_COOKED  == 4

(* vfs.h *)
SEEK_SET   == 1
SEEK_CUR   == 2
SEEK_END   == 3
PATH_MAX   == 128
DT_UNKNOWN == 0
DT_CHR     == 1
DT_DIR     == 2
DT_REG     == 3

(* pool sizes *)
SB_MAX        == 4
RAMDISKS_MAX  == 4
MAX_CPIO_OPEN == 4
TTY_CT        == 2
IBUFSZ        == 256

(* i386 integers.  A 32-bit quantity is held as its two's-complement      *)
(* signed value, so a conversion between long and size_t keeps the held    *)
(* number and only the comparisons differ: as a size_t, a negative held    *)
(* number stands for that number plus 2^32 and is above every other.       *)
ULe(x, y) == IF (x < 0) = (y < 0) THEN x <= y ELSE y < 0     \* x <= y, both size_t
UGt(x, y) == ~ULe(x, y)

MIN(x, y) == IF x <= y THEN x ELSE y                          \* MIN on signed operands
UMIN(x, y) == IF ULe(x, y) THEN x ELSE y                      \* MIN on size_t operands
ALIGN_UP(x, a) == ((x + (a - 1)) \div a) * a                 \* (x + a-1) & ~(a-1)

MAKEDEV(maj, min) == maj * 256 + min
MAJOR(dev) == dev \div 256
MINOR(dev) == dev % 256

\* Let(v, B) is B applied to v: the value of a call is worked out once and
\* then named, as a C local holds it.
Let(v, B(_)) == B(v)

-----------------------------------------------------------------------------
(* string.c, on C strings held as byte sequences *)

\* Byte i of a C string, the terminating NUL included.
CharAt(s, i) == IF i <= Len(s) THEN s[i] ELSE 0

\* The C string that starts a byte buffer: the bytes before the first NUL.
CStr(buf) ==
    LET nul == {i \in 1..Len(buf) : buf[i] = 0}
    IN  IF nul = {} THEN buf
        ELSE SubSeq(buf, 1, (CHOOSE i \in nul : \A j \in nul : i <= j) - 1)

RECURSIVE strncmp_from(_, _, _, _)
strncmp_from(s, t, n, i) ==
    IF n = 0 THEN 0
    ELSE LET a == CharAt(s, i)
             b == CharAt(t, i)
         IN  IF a # 0 /\ b # 0 /\ a = b THEN strncmp_from(s, t, n - 1, i + 1)
             ELSE IF a < b THEN -1
             ELSE IF a = b THEN 0
             ELSE 1

strncmp(s, t, n) == strncmp_from(s, t, n, 1)
strcmp(s, t) == strncmp_from(s, t, Len(s) + Len(t) + 1, 1)
strlen(s) == Len(s)

\* strstr(str, substr) = str, as find_mount_for_path uses it; strstr scans
\* from the first byte and stops at the NUL of str.
SubSeqFrom(s, i) == SubSeq(s, i, Len(s))
strstr_index(str, substr) ==
    LET hits == {i \in 1..Len(str) : strncmp(SubSeqFrom(str, i), substr, strlen(substr)) = 0}
    IN  IF hits = {} THEN 0 ELSE CHOOSE i \in hits : \A j \in hits : i <= j

-----------------------------------------------------------------------------
(* The archive images the ramdisks hold: the "newc" layout of              *)
(* struct cpio_newc_header, as cpio -H newc writes it.                      *)

HexDigit(d) == IF d < 10 THEN 48 + d ELSE 65 + (d - 10)

RECURSIVE HexField(_, _)
HexField(v, n) == IF n = 0 THEN <<>> ELSE Append(HexField(v \div 16, n - 1), HexDigit(v % 16))

Zeros(n) == [i \in 1..n |-> 0]
Pad4(n) == Zeros(ALIGN_UP(n, 4) - n)

NEWC_MAGIC == <<48, 55, 48, 55, 48, 49>>          \* "070701"
NEWC_HSIZE == 6 + 13 * 8                          \* sizeof(struct cpio_newc_header)

\* One archive member: header, pathname with NUL, padding, data, padding.
NewcEntry(ino, mode, name, data) ==
    NEWC_MAGIC
    \o HexField(ino, 8) \o HexField(mode, 8) \o HexField(0, 8) \o HexField(0, 8)
    \o HexField(1, 8) \o HexField(0, 8) \o HexField(Len(data), 8)
    \o HexField(0, 8) \o HexField(0, 8) \o HexField(0, 8) \o HexField(0, 8)
    \o HexField(Len(name) + 1, 8) \o HexField(0, 8)
    \o name \o <<0>> \o Pad4(NEWC_HSIZE + Len(name) + 1)
    \o data \o Pad4(Len(data))

MaxScan == 8      \* headers one archive scan may visit before it counts as endless

S_DOT     == <<46>>                                              \* "."
S_BIN     == <<98, 105, 110>>                                    \* "bin"
S_HELLO   == <<104, 101, 108, 108, 111>>                         \* "hello"
S_BINHELLO == S_BIN \o <<47>> \o S_HELLO                         \* "bin/hello"
S_SBIN    == <<115, 98, 105, 110>>                               \* "sbin"
S_TRAILER == <<84, 82, 65, 73, 76, 69, 82, 33, 33, 33>>          \* "TRAILER!!!"
S_NOFILE  == <<120>>                                             \* "x"

(* cpiofs.c: CPIO mode field bits *)
CM_FT_MASK == 24576    \* 0060000
CM_FT_DIR  == 16384    \* 0040000
CM_FT_CHR  == 8192     \* 0020000
CM_FT_BLK  == CM_FT_MASK

MODE_DIR == CM_FT_DIR + 493      \* 040755
MODE_REG == 32768 + 420          \* 0100644

HelloData == <<72, 101, 108, 108, 111, 10>>                      \* "Hello\n"
ToolData  == <<35, 33, 116>>                                     \* "#!t"

\* The initrd: ".", "bin", "bin/hello", "sbin", trailer.
ImageRoot ==
    NewcEntry(1, MODE_DIR, S_DOT, <<>>)
    \o NewcEntry(2, MODE_DIR, S_BIN, <<>>)
    \o NewcEntry(3, MODE_REG, S_BINHELLO, HelloData)
    \o NewcEntry(4, MODE_DIR, S_SBIN, <<>>)
    \o NewcEntry(0, 0, S_TRAILER, <<>>)

\* A second archive, mountable on /bin: "hello", ".", trailer.
ImageBin ==
    NewcEntry(7, MODE_REG, S_HELLO, ToolData)
    \o NewcEntry(8, MODE_DIR, S_DOT, <<>>)
    \o NewcEntry(0, 0, S_TRAILER, <<>>)

\* An archive without a "." member: mounting it fails with no-entry.
ImageNoRoot ==
    NewcEntry(9, MODE_REG, S_HELLO, ToolData)
    \o NewcEntry(0, 0, S_TRAILER, <<>>)

Images == <<ImageRoot, ImageBin, ImageNoRoot>>

\* Damaged boot modules.  ImageCut: ".", "bin/hello", then bytes that are no
\* header.  ImageJunk: no header at all.
S_JUNK == <<88, 88, 88, 88, 88, 88, 88, 88>>                     \* "XXXXXXXX"
ImageCut ==
    NewcEntry(1, MODE_DIR, S_DOT, <<>>)
    \o NewcEntry(3, MODE_REG, S_BINHELLO, HelloData)
    \o S_JUNK
ImageJunk == S_JUNK

\* Archives with a byte that is no hex digit in a header field: 'G' ends the
\* c_filesize of "." in ImageBadSize and the c_mode of "bin/hello" in
\* ImageBadMode.
WithByte(img, i, b) == [img EXCEPT ![i] = b]
ImageBadSize ==
    WithByte(NewcEntry(1, MODE_DIR, S_DOT, <<>>), 62, 71)
    \o NewcEntry(3, MODE_REG, S_BINHELLO, HelloData)
    \o NewcEntry(0, 0, S_TRAILER, <<>>)
ImageBadMode ==
    NewcEntry(1, MODE_DIR, S_DOT, <<>>)
    \o WithByte(NewcEntry(3, MODE_REG, S_BINHELLO, HelloData), 22, 71)
    \o NewcEntry(0, 0, S_TRAILER, <<>>)

\* Archives that end early or point past their end.  ImageMidHeader stops
\* 50 bytes into the header of "bin/hello", ImageMidName 4 bytes into its
\* pathname; ImageNoTrailer has no "TRAILER!!!" member; in ImageBeyond the
\* c_filesize of "hello" is 00001000 with no data behind it.
ImageMidHeader ==
    NewcEntry(1, MODE_DIR, S_DOT, <<>>)
    \o SubSeq(NewcEntry(3, MODE_REG, S_BINHELLO, HelloData), 1, 50)
ImageMidName ==
    NewcEntry(1, MODE_DIR, S_DOT, <<>>)
    \o SubSeq(NewcEntry(3, MODE_REG, S_BINHELLO, HelloData), 1, NEWC_HSIZE + 4)
ImageNoTrailer ==
    NewcEntry(1, MODE_DIR, S_DOT, <<>>)
    \o NewcEntry(3, MODE_REG, S_BINHELLO, HelloData)
ImageBeyond ==
    NewcEntry(1, MODE_DIR, S_DOT, <<>>)
    \o WithByte(NewcEntry(3, MODE_REG, S_HELLO, <<>>), 59, 49)

\* The memory a ramdisk's addr can point to.
Disks ==
    Images \o <<ImageCut, ImageJunk, ImageBadSize, ImageBadMode, ImageMidHeader,
                ImageMidName, ImageNoTrailer, ImageBeyond>>

\* struct ramdisk: addr is an index into Disks, 0 the null pointer.
NoRamdisk == [addr |-> 0, rd_size |-> 0]
BootRamdisks ==
    [i \in 0..(RAMDISKS_MAX - 1) |->
        IF i < Len(Images) THEN [addr |-> i + 1, rd_size |-> Len(Images[i + 1])]
        ELSE NoRamdisk]

\* The ramdisks when the boot modules are damaged: ImageCut, ImageJunk,
\* ImageNoRoot, none.
DamagedRamdisks ==
    [BootRamdisks EXCEPT ![0] = [addr |-> 4, rd_size |-> Len(ImageCut)],
                         ![1] = [addr |-> 5, rd_size |-> Len(ImageJunk)]]


-----------------------------------------------------------------------------
(* struct file, and the operations of vfs_file.c on a ramdisk file *)

NullFile ==
    [f_op |-> "NULL", f_type |-> DT_UNKNOWN, f_rdev |-> 0, f_size |-> 0,
     f_ino |-> 0, f_pos |-> 0, f_driver_data |-> -1]

\* The entry points each driver's file_operations table supplies.
DriverOps ==
    [serial    |-> {"open_dev", "read", "write", "ioctl"},
     tty       |-> {"open_dev", "read", "write", "ioctl"},
     ramdisk   |-> {"open_dev", "debugstr", "read"},
     cpio_file |-> {"open_path", "release", "read", "readdir"}]

HasOp(f, op) == f.f_op # "NULL" /\ op \in DriverOps[f.f_op]

\* ramdisk_open_dev
ramdisk_open_dev(f, min) ==
    IF min >= RAMDISKS_MAX \/ ramdisks[min].addr = 0 THEN [res |-> -ENODEV, f |-> f]
    ELSE [res |-> 0, f |-> [f EXCEPT !.f_driver_data = min, !.f_size = ramdisks[min].rd_size]]

\* The bytes of the disk behind an open ramdisk file.
DiskOf(f) == Disks[ramdisks[f.f_driver_data].addr]

\* ramdisk_read, were it to copy count bytes whatever is left of the disk
ramdisk_read_all(f, count, off) ==
    LET off0 == IF off < 0 THEN 0 ELSE off
        n    == UMIN(count, f.f_size - off0)
    IN  IF off0 >= f.f_size THEN [res |-> 0, data |-> <<>>, off |-> off0]
        ELSE [res |-> count, data |-> SubSeq(DiskOf(f), off0 + 1, off0 + n),
              off |-> off0 + count]

\* ramdisk_read: the bytes copied, the return value and the offset left in
\* *off.  An offset below zero is raised to zero first.
ramdisk_read(f, count, off) ==
    LET off0 == IF off < 0 THEN 0 ELSE off
        n    == UMIN(count, f.f_size - off0)
    IN  IF off0 >= f.f_size THEN [res |-> 0, data |-> <<>>, off |-> off0]
        ELSE [res |-> n, data |-> SubSeq(DiskOf(f), off0 + 1, off0 + n), off |-> off0 + n]

\* file_open_dev on a device whose driver keeps no state of its own (the
\* ramdisk); the serial and TTY opens are the actions further down.
file_open_dev(rdev) ==
    LET maj == MAJOR(rdev)
        min == MINOR(rdev)
        f0  == [NullFile EXCEPT !.f_type = DT_CHR, !.f_op = chrdev_drivers[maj],
                                !.f_rdev = rdev]
    IN  IF maj <= 0 \/ MAJORS_MAX <= maj THEN [res |-> -ENODEV, f |-> NullFile]
        ELSE IF chrdev_drivers[maj] = "NULL" THEN [res |-> -ENODEV, f |-> NullFile]
        ELSE IF ~HasOp(f0, "open_dev") THEN [res |-> 0, f |-> f0]
        ELSE IF f0.f_op = "ramdisk" THEN ramdisk_open_dev(f0, min)
        ELSE [res |-> -ENODEV, f |-> f0]

\* file_read on a ramdisk file: read at f_pos and move it.
rd_file_read(f, count) ==
    IF ~HasOp(f, "read") THEN [res |-> -EINVAL, data |-> <<>>, f |-> f]
    ELSE IF count = 0 THEN [res |-> 0, data |-> <<>>, f |-> f]
    ELSE Let(ramdisk_read(f, count, f.f_pos), LAMBDA r :
             [res |-> r.res, data |-> r.data, f |-> [f EXCEPT !.f_pos = r.off]])

\* file_pread on a ramdisk file: read at off, f_pos untouched.
rd_file_pread(f, count, off) ==
    IF ~HasOp(f, "read") THEN [res |-> -EINVAL, data |-> <<>>]
    ELSE IF count = 0 THEN [res |-> 0, data |-> <<>>]
    ELSE Let(ramdisk_read(f, count, off), LAMBDA r : [res |-> r.res, data |-> r.data])

\* file_lseek, were an unknown whence to count as SEEK_SET
file_lseek_lenient(f, off, whence) ==
    IF f.f_op = "NULL" THEN [res |-> -EINVAL, f |-> f]
    ELSE IF whence = SEEK_CUR THEN [res |-> 0, f |-> [f EXCEPT !.f_pos = f.f_pos + off]]
    ELSE IF whence = SEEK_END THEN [res |-> 0, f |-> [f EXCEPT !.f_pos = f.f_size + off]]
    ELSE [res |-> 0, f |-> [f EXCEPT !.f_pos = off]]

\* file_lseek.  No driver of the kernel supplies lseek, so the driver call
\* is skipped and res stays 0: the value returned on success is res, not
\* the new position.
file_lseek(f, off, whence) ==
    IF f.f_op = "NULL" THEN [res |-> -EINVAL, f |-> f]
    ELSE IF whence = SEEK_SET THEN [res |-> 0, f |-> [f EXCEPT !.f_pos = off]]
    ELSE IF whence = SEEK_CUR THEN [res |-> 0, f |-> [f EXCEPT !.f_pos = f.f_pos + off]]
    ELSE IF whence = SEEK_END THEN [res |-> 0, f |-> [f EXCEPT !.f_pos = f.f_size + off]]
    ELSE [res |-> -EINVAL, f |-> f]

-----------------------------------------------------------------------------
(* cpiofs.c: header reading and decoding, on the archive file f, a ramdisk  *)
(* file                                                                     *)

IsDigit(c) == 48 <= c /\ c <= 57
tolower(c) == IF 65 <= c /\ c <= 90 THEN c - 65 + 97 ELSE c

\* cpio_atoi: left-to-right multiply-accumulate in an int; -EINVAL on the
\* first byte that is no digit of the base.
RECURSIVE cpio_atoi_from(_, _, _, _)
cpio_atoi_from(field, i, base, acc) ==
    IF i > Len(field) THEN acc
    ELSE LET c     == tolower(field[i])
             digit == IF IsDigit(c) THEN c - 48
                      ELSE IF 97 <= c /\ c <= 102 THEN c - 97 + 10
                      ELSE -1
         IN  IF digit < 0 \/ digit >= base THEN -EINVAL
             ELSE cpio_atoi_from(field, i + 1, base, acc * base + digit)

cpio_atoi(field, base) == cpio_atoi_from(field, 1, base, 0)
newc_atoi(field) == cpio_atoi(field, 16)

\* The k-th (from 0) 8-byte field after the magic of a raw newc header.
NewcField(bytes, k) == SubSeq(bytes, 7 + 8 * k, 14 + 8 * k)
c_mode(bytes)     == NewcField(bytes, 1)
c_filesize(bytes) == NewcField(bytes, 6)
c_devmajor(bytes) == NewcField(bytes, 7)
c_devminor(bytes) == NewcField(bytes, 8)
c_namesize(bytes) == NewcField(bytes, 11)

NullHeader ==
    [fmt |-> "CF_UNKNOWN", bytes |-> Zeros(NEWC_HSIZE), hoff |-> 0, hsize |-> 0,
     psize |-> 0, ppad |-> 0, fsize |-> 0, fpad |-> 0, pathname |-> <<>>,
     is_endmarker |-> FALSE]

ZeroFill(data, n) == data \o Zeros(n - Len(data))

\* cpio_read_header_raw
cpio_read_header_raw(f) ==
    Let(rd_file_read(f, 6), LAMBDA r1 :
        LET h1 == [NullHeader EXCEPT !.hoff = f.f_pos,
                                     !.bytes = ZeroFill(r1.data, NEWC_HSIZE)]
        IN  IF r1.res < 0 THEN [res |-> r1.res, h |-> h1, f |-> r1.f]
            ELSE IF r1.res = 0 THEN [res |-> -EINVAL, h |-> h1, f |-> r1.f]
            ELSE IF ZeroFill(r1.data, 6) # NEWC_MAGIC
                THEN [res |-> -EINVAL, h |-> h1, f |-> r1.f]
            ELSE Let(rd_file_read(r1.f, NEWC_HSIZE - r1.res), LAMBDA r2 :
                LET h2 == [h1 EXCEPT !.fmt = "CF_NEWC", !.hsize = NEWC_HSIZE,
                                     !.bytes = ZeroFill(r1.data \o r2.data, NEWC_HSIZE)]
                IN  IF r2.res < 0 THEN [res |-> r2.res, h |-> h2, f |-> r2.f]
                    ELSE [res |-> r1.res + r2.res, h |-> h2, f |-> r2.f]))

\* cpioh_decode_sizes: the results of newc_atoi go into size_t fields unchecked.
cpioh_decode_sizes(h) ==
    IF h.fmt # "CF_NEWC" THEN [res |-> -EINVAL, h |-> h]
    ELSE LET psize == newc_atoi(c_namesize(h.bytes))
             fsize == newc_atoi(c_filesize(h.bytes))
         IN  [res |-> 0,
              h |-> [h EXCEPT !.psize = psize, !.fsize = fsize,
                              !.ppad = ALIGN_UP(h.hsize + psize, 4) - (h.hsize + psize),
                              !.fpad = ALIGN_UP(fsize, 4) - fsize]]

\* cpio_read_pathname.  The read loop repeats until readsz bytes have come;
\* a read that returns 0 (end of the device) never adds any, so a short
\* device leaves the loop spinning: hang.
cpio_read_pathname(f, h) ==
    Let(rd_file_read(f, UMIN(h.psize, PATH_MAX)), LAMBDA r :
        LET readsz == UMIN(h.psize, PATH_MAX)
            h1     == [h EXCEPT !.pathname = CStr(r.data)]
        IN  IF readsz > 0 /\ r.res < 0 THEN [res |-> r.res, h |-> h1, f |-> r.f, hang |-> FALSE]
            ELSE IF readsz > 0 /\ r.res < readsz
                THEN [res |-> 0, h |-> h1, f |-> r.f, hang |-> TRUE]
            ELSE IF UGt(h.psize, PATH_MAX)
                THEN [res |-> -EOVERFLOW, h |-> h1, f |-> r.f, hang |-> FALSE]
            ELSE IF h.ppad # 0
                THEN Let(file_lseek(r.f, h.ppad, SEEK_CUR), LAMBDA sk :
                         [res |-> IF sk.res < 0 THEN sk.res ELSE readsz + h.ppad,
                          h |-> h1, f |-> sk.f, hang |-> FALSE])
            ELSE [res |-> readsz, h |-> h1, f |-> r.f, hang |-> FALSE])

\* cpio_read_header: raw header, sizes, pathname, end-marker test.
cpio_read_header(f) ==
    Let(cpio_read_header_raw(f), LAMBDA raw :
        IF raw.res < 0 THEN [res |-> raw.res, h |-> raw.h, f |-> raw.f, hang |-> FALSE]
        ELSE Let(cpioh_decode_sizes(raw.h), LAMBDA dec :
            IF dec.res < 0 THEN [res |-> dec.res, h |-> dec.h, f |-> raw.f, hang |-> FALSE]
            ELSE Let(cpio_read_pathname(raw.f, dec.h), LAMBDA pn :
                IF pn.hang \/ pn.res < 0 THEN pn
                ELSE [res |-> raw.res + pn.res,
                      h |-> [pn.h EXCEPT !.is_endmarker =
                                (pn.h.fsize = 0
                                 /\ strncmp(pn.h.pathname, S_TRAILER, PATH_MAX) = 0)],
                      f |-> pn.f, hang |-> FALSE])))

\* cpio_skip_fdata
cpio_skip_fdata(f, h) == file_lseek(f, h.fsize + h.fpad, SEEK_CUR)

\* cpio_find_path: scan from the file's position for the header whose
\* pathname is p; the result is its sequence number, or the error.
RECURSIVE cpio_find_path_from(_, _, _, _)
cpio_find_path_from(f, p, h, i) ==
    IF h.is_endmarker THEN [res |-> -ENOENT, h |-> h, f |-> f, hang |-> FALSE]
    ELSE IF i >= MaxScan THEN [res |-> 0, h |-> h, f |-> f, hang |-> TRUE]
    ELSE Let(cpio_read_header(f), LAMBDA rh :
        IF rh.hang \/ rh.res < 0 THEN rh
        ELSE IF strcmp(rh.h.pathname, p) = 0
            THEN [res |-> i, h |-> rh.h, f |-> rh.f, hang |-> FALSE]
        ELSE Let(cpio_skip_fdata(rh.f, rh.h), LAMBDA sk :
            IF sk.res < 0 THEN [res |-> sk.res, h |-> rh.h, f |-> sk.f, hang |-> FALSE]
            ELSE cpio_find_path_from(sk.f, p, rh.h, i + 1)))

cpio_find_path(f, p) == cpio_find_path_from(f, p, NullHeader, 0)

\* cpio_mode_to_dirtype
cpio_mode_to_dirtype(mode) ==
    LET ft == (mode \div CM_FT_CHR) % 4       \* mode & CM_FT_MASK, in units of 020000
    IN  IF ft = 0 THEN DT_REG
        ELSE IF ft = 2 THEN DT_DIR
        ELSE DT_CHR

\* cpioh_fstat, were it to leave the size unset
cpioh_fstat_nosize(h, f) ==
    [f EXCEPT !.f_rdev = MAKEDEV(newc_atoi(c_devmajor(h.bytes)),
                                 newc_atoi(c_devminor(h.bytes))),
              !.f_type = cpio_mode_to_dirtype(newc_atoi(c_mode(h.bytes)))]

\* cpioh_fstat: f_rdev, f_type and f_size from the header; f_ino is not set.
cpioh_fstat(h, f) ==
    [f EXCEPT !.f_rdev = MAKEDEV(newc_atoi(c_devmajor(h.bytes)),
                                 newc_atoi(c_devminor(h.bytes))),
              !.f_type = cpio_mode_to_dirtype(newc_atoi(c_mode(h.bytes))),
              !.f_size = h.fsize]
-----------------------------------------------------------------------------
(* path.c *)

Truncate(str, n) == IF Len(str) <= n THEN str ELSE SubSeq(str, 1, n)

\* path_join, were it to put a '/' after every a that is not empty
path_join_slash(dstsz, a, b) ==
    LET path_isabs == Len(b) > 0 /\ b[1] = 47
        sep        == IF Len(a) > 0 THEN <<47>> ELSE <<>>
    IN  Truncate(IF path_isabs THEN b ELSE a \o sep \o b, dstsz - 1)

\* path_join into a buffer of dstsz bytes: b alone when b is absolute, else
\* a, a '/' unless a is empty or ends with one, then b; cut to dstsz - 1.
path_join(dstsz, a, b) ==
    LET path_isabs == Len(b) > 0 /\ b[1] = 47
        sep        == IF Len(a) > 0 /\ a[Len(a)] # 47 THEN <<47>> ELSE <<>>
    IN  Truncate(IF path_isabs THEN b ELSE a \o sep \o b, dstsz - 1)

\* path_strip_prefix, were it to leave a '/' that follows the prefix
path_strip_prefix_noslash(path, prefix) ==
    LET prefixlen == strlen(prefix)
        rest      == SubSeqFrom(path, prefixlen + 1)
    IN  IF strncmp(path, prefix, prefixlen) # 0 THEN "NULL"
        ELSE rest

\* path_strip_prefix: the rest of path after prefix and one following '/';
\* "NULL" when prefix is no prefix of path.
path_strip_prefix(path, prefix) ==
    LET prefixlen == strlen(prefix)
        rest      == SubSeqFrom(path, prefixlen + 1)
    IN  IF strncmp(path, prefix, prefixlen) # 0 THEN "NULL"
        ELSE IF CharAt(rest, 1) = 47 THEN SubSeqFrom(rest, 2)
        ELSE rest

\* A call of path_join with the arguments waiting in ret; dst is the string
\* left in the buffer of dstsz bytes.
PathJoin ==
    /\ ret.op = "path_join_call"
    /\ ret' = [op |-> "path_join", res |-> 0, hang |-> FALSE, dstsz |-> ret.dstsz,
               a |-> ret.a, b |-> ret.b, dst |-> path_join(ret.dstsz, ret.a, ret.b)]
    /\ UNCHANGED <<ksh, regVars, mntVars, ramdisks, fileVars, ttyVars>>

-----------------------------------------------------------------------------
(* vfs_file.c, vfs_fs.c: driver registration *)

NoRet == [op |-> "none", res |-> 0, hang |-> FALSE]

Running == ~ret.hang

\* newc_atoi called on the 8 bytes of field.  The accumulator of cpio_atoi
\* is an int: a field of hex digits whose first digit is 8 or more runs it
\* past INT_MAX with the last digit, the signed overflow is undefined, and
\* the call returns the wrapped value (the value less 2^32) or any other
\* int (0 and INT_MAX stand for those).
NewcAtoi(field) ==
    /\ Running
    /\ LET top  == cpio_atoi(<<field[1]>>, 16)
           rest == cpio_atoi(Tail(field), 16)
           INT_MAX == 2147483647
       IN  \E r \in (IF top >= 8 /\ rest >= 0
                        THEN {(top - 8) * 268435456 + rest - INT_MAX - 1, 0, INT_MAX}
                    ELSE {newc_atoi(field)}) :
               ret' = [op |-> "newc_atoi", res |-> r, hang |-> FALSE, field |-> field]
    /\ UNCHANGED <<ksh, regVars, mntVars, ramdisks, fileVars, ttyVars>>

\* chrdev_register_inner / fs_register_inner: the new table and the result.
register_inner(table, max, id, ops) ==
    IF id <= 0 \/ max <= id THEN [res |-> -EINVAL, table |-> table]
    ELSE IF table[id] # "NULL"
        THEN [res |-> IF table[id] = ops THEN 0 ELSE -EBUSY, table |-> table]
    ELSE [res |-> 0, table |-> [table EXCEPT ![id] = ops]]

\* chrdev_register: the value returned is maj, not the inner result.
chrdev_register_result(maj, res) == maj

\* fs_register: the value returned is the inner result.
fs_register_result(fstypeid, res) == res

ChrdevOps == {"serial", "tty"}
FsOps     == {"cpiofs", "otherfs"}

ChrdevRegister(maj, fops) ==
    LET r == register_inner(chrdev_drivers, MAJORS_MAX, maj, fops)
    IN  /\ Running
        /\ chrdev_drivers' = r.table
        /\ ret' = [op |-> "chrdev_register", id |-> maj, ops |-> fops,
                   old |-> IF maj \in DOMAIN chrdev_drivers THEN chrdev_drivers[maj] ELSE "NULL",
                   inrange |-> 0 < maj /\ maj < MAJORS_MAX,
                   res |-> chrdev_register_result(maj, r.res), hang |-> FALSE]
        /\ UNCHANGED <<ksh, fs_drivers, mntVars, ramdisks, fileVars, ttyVars>>

FsRegister(fstypeid, ops) ==
    LET r == register_inner(fs_drivers, FSTYPES_MAX, fstypeid, ops)
    IN  /\ Running
        /\ fs_drivers' = r.table
        /\ ret' = [op |-> "fs_register", id |-> fstypeid, ops |-> ops,
                   old |-> IF fstypeid \in DOMAIN fs_drivers THEN fs_drivers[fstypeid] ELSE "NULL",
                   inrange |-> 0 < fstypeid /\ fstypeid < FSTYPES_MAX,
                   res |-> fs_register_result(fstypeid, r.res), hang |-> FALSE]
        /\ UNCHANGED <<ksh, chrdev_drivers, mntVars, ramdisks, fileVars, ttyVars>>

-----------------------------------------------------------------------------
(* vfs_fs.c: superblocks and mounting *)

NullSb == [s_op |-> "NULL", s_bdev |-> 0, s_mountpath |-> <<>>, s_root_ino |-> 0]

FreeSbs(sbs) == {i \in DOMAIN sbs : sbs[i].s_op = "NULL"}
MinOf(S) == CHOOSE i \in S : \A j \in S : i <= j

\* sb_alloc: the first slot whose s_op is null; -1 when there is none.
sb_alloc(sbs) == IF FreeSbs(sbs) = {} THEN -1 ELSE MinOf(FreeSbs(sbs))

\* sb_free
sb_free(sb) == [sb EXCEPT !.s_op = "NULL"]

\* cpio_sb_open: open the backing device, find ".", keep its sequence number.
cpio_sb_open(sb) ==
    Let(file_open_dev(sb.s_bdev), LAMBDA o :
        IF o.res < 0 THEN [res |-> o.res, sb |-> sb, hang |-> FALSE]
        ELSE Let(cpio_find_path(o.f, S_DOT), LAMBDA fp :
                 [res |-> fp.res, sb |-> [sb EXCEPT !.s_root_ino = fp.res],
                  hang |-> fp.hang]))

\* sb_open: look the driver up, reset the superblock, call the driver.
sb_open(sb, blockdev, fstypeid) ==
    LET s_op == fs_drivers[fstypeid]
        sb0  == [NullSb EXCEPT !.s_bdev = blockdev, !.s_op = s_op]
    IN  IF s_op = "NULL" THEN [res |-> -ENODEV, sb |-> sb, hang |-> FALSE]
        ELSE IF s_op # "cpiofs" THEN [res |-> 0, sb |-> sb0, hang |-> FALSE]
        ELSE Let(cpio_sb_open(sb0), LAMBDA d :
                 IF d.hang \/ d.res < 0 THEN d
                 ELSE [res |-> 0, sb |-> d.sb, hang |-> FALSE])

\* vfs_mount_list_add: the loop looks for the first mount with a greater
\* mountpath, but the new superblock is then linked before the list head,
\* that is at the tail, whatever the loop found.
vfs_mount_list_add(list, sb) == Append(list, sb)

\* fs_mountdev, were it to keep the superblock of a mount that failed
fs_mountdev_keep(blockdev, fstypeid, mpath) ==
    Let(sb_alloc(superblocks), LAMBDA i :
        IF i < 0
            THEN [res |-> -ENOMEM, sbs |-> superblocks, list |-> vfs_mount_list,
                  hang |-> FALSE]
        ELSE Let(sb_open(superblocks[i], blockdev, fstypeid), LAMBDA o :
            IF o.hang \/ o.res < 0
                THEN [res |-> o.res, sbs |-> [superblocks EXCEPT ![i] = o.sb],
                      list |-> vfs_mount_list, hang |-> o.hang]
            ELSE [res |-> 0,
                  sbs |-> [superblocks EXCEPT
                              ![i] = [o.sb EXCEPT !.s_mountpath = Truncate(mpath, PATH_MAX - 1)]],
                  list |-> vfs_mount_list_add(vfs_mount_list, i), hang |-> FALSE]))

\* fs_mountdev: the superblocks and the mount list after the call, and its result.
fs_mountdev(blockdev, fstypeid, mpath) ==
    Let(sb_alloc(superblocks), LAMBDA i :
        IF i < 0
            THEN [res |-> -ENOMEM, sbs |-> superblocks, list |-> vfs_mount_list,
                  hang |-> FALSE]
        ELSE Let(sb_open(superblocks[i], blockdev, fstypeid), LAMBDA o :
            IF o.hang \/ o.res < 0
                THEN [res |-> o.res, sbs |-> [superblocks EXCEPT ![i] = sb_free(o.sb)],
                      list |-> vfs_mount_list, hang |-> o.hang]
            ELSE [res |-> 0,
                  sbs |-> [superblocks EXCEPT
                              ![i] = [o.sb EXCEPT !.s_mountpath = Truncate(mpath, PATH_MAX - 1)]],
                  list |-> vfs_mount_list_add(vfs_mount_list, i), hang |-> FALSE]))

FsMountdev(blockdev, fstypeid, mpath) ==
    /\ Running
    /\ \E r \in {fs_mountdev(blockdev, fstypeid, mpath)} :
        /\ superblocks' = r.sbs
        /\ vfs_mount_list' = r.list
        /\ ret' = [op |-> "fs_mountdev", res |-> r.res, hang |-> r.hang,
                   blockdev |-> blockdev, fstypeid |-> fstypeid]
    /\ UNCHANGED <<ksh, regVars, ramdisks, fileVars, ttyVars>>

\* find_mount_for_path: walk the list from its tail; the first superblock
\* whose mountpath starts abspath; -1 when there is none.
RECURSIVE find_mount_from(_, _)
find_mount_from(abspath, k) ==
    IF k = 0 THEN -1
    ELSE IF strstr_index(abspath, superblocks[vfs_mount_list[k]].s_mountpath) = 1
        THEN vfs_mount_list[k]
    ELSE find_mount_from(abspath, k - 1)

find_mount_for_path(abspath) == find_mount_from(abspath, Len(vfs_mount_list))

-----------------------------------------------------------------------------
(* cpiofs.c: per-file contexts, open by path, release *)

NullCfdata == [af |-> NullFile, h |-> NullHeader, foff |-> 0]

FreeCfdatas(cfds) == {i \in DOMAIN cfds : cfds[i].af.f_op = "NULL"}

\* cfdata_alloc, were it to hand out the first context whether free or not
cfdata_alloc_first(cfds) == 0

\* cfdata_alloc: the first context whose archive file has no f_op; -1 when none.
cfdata_alloc(cfds) == IF FreeCfdatas(cfds) = {} THEN -1 ELSE MinOf(FreeCfdatas(cfds))

\* cfdata_free
cfdata_free(cfd) == [cfd EXCEPT !.af.f_op = "NULL"]

\* cpio_file_open_path, were it to keep the context when the path is not found
cpio_file_open_path_keep(f, sb, path) ==
    Let(cfdata_alloc(cfdatas), LAMBDA c :
        IF c < 0 THEN [res |-> -ENOMEM, f |-> f, cfds |-> cfdatas, hang |-> FALSE]
        ELSE Let(file_open_dev(sb.s_bdev), LAMBDA o :
            IF o.res < 0
                THEN [res |-> o.res, f |-> f, hang |-> FALSE,
                      cfds |-> [cfdatas EXCEPT ![c] = cfdata_free([@ EXCEPT !.af = o.f])]]
            ELSE Let(cpio_find_path(o.f, IF path = <<>> THEN S_DOT ELSE path), LAMBDA fp :
                IF fp.hang \/ fp.res < 0
                    THEN [res |-> fp.res, f |-> f, hang |-> fp.hang,
                          cfds |-> [cfdatas EXCEPT ![c] = [@ EXCEPT !.af = fp.f, !.h = fp.h]]]
                ELSE [res |-> 0, f |-> [cpioh_fstat(fp.h, f) EXCEPT !.f_driver_data = c],
                      cfds |-> [cfdatas EXCEPT
                                  ![c] = [af |-> fp.f, h |-> fp.h,
                                          foff |-> fp.h.hoff + fp.h.hsize + fp.h.psize
                                                   + fp.h.ppad]],
                      hang |-> FALSE])))

\* cpio_file_open_path
cpio_file_open_path(f, sb, path) ==
    Let(cfdata_alloc(cfdatas), LAMBDA c :
        IF c < 0 THEN [res |-> -ENOMEM, f |-> f, cfds |-> cfdatas, hang |-> FALSE]
        ELSE Let(file_open_dev(sb.s_bdev), LAMBDA o :
            IF o.res < 0
                THEN [res |-> o.res, f |-> f, hang |-> FALSE,
                      cfds |-> [cfdatas EXCEPT ![c] = cfdata_free([@ EXCEPT !.af = o.f])]]
            ELSE Let(cpio_find_path(o.f, IF path = <<>> THEN S_DOT ELSE path), LAMBDA fp :
                IF fp.hang \/ fp.res < 0
                    THEN [res |-> fp.res, f |-> f, hang |-> fp.hang,
                          cfds |-> [cfdatas EXCEPT
                                      ![c] = cfdata_free([@ EXCEPT !.af = fp.f, !.h = fp.h])]]
                ELSE [res |-> 0, f |-> [cpioh_fstat(fp.h, f) EXCEPT !.f_driver_data = c],
                      cfds |-> [cfdatas EXCEPT
                                  ![c] = [af |-> fp.f, h |-> fp.h,
                                          foff |-> fp.h.hoff + fp.h.hsize + fp.h.psize
                                                   + fp.h.ppad]],
                      hang |-> FALSE])))

\* cpio_file_release
cpio_file_release(f, cfds) ==
    IF f.f_driver_data >= 0 THEN [cfds EXCEPT ![f.f_driver_data] = cfdata_free(@)] ELSE cfds

\* The file_operations table a filesystem driver opens its files with.
fs_file_ops(s_op) == IF s_op = "cpiofs" THEN "cpio_file" ELSE "NULL"

\* file_open_sb_path: reset the file to the filesystem's table, call open_path.
file_open_sb_path(f, sb, relpath) ==
    LET f0 == [NullFile EXCEPT !.f_op = fs_file_ops(sb.s_op)]
    IN  IF sb.s_op = "NULL" THEN [res |-> -EINVAL, f |-> f, cfds |-> cfdatas, hang |-> FALSE]
        ELSE IF ~HasOp(f0, "open_path")
            THEN [res |-> -ENOTSUP, f |-> f, cfds |-> cfdatas, hang |-> FALSE]
        ELSE cpio_file_open_path(f0, sb, relpath)

\* file_open_path_abs, with the superblock it chose and the path it passed on.
file_open_path_abs(f, abspath) ==
    Let(find_mount_for_path(abspath), LAMBDA sbi :
        IF sbi < 0
            THEN [res |-> -ENOENT, f |-> f, cfds |-> cfdatas, hang |-> FALSE,
                  sb |-> -1, relpath |-> <<>>]
        ELSE Let(path_strip_prefix(abspath, superblocks[sbi].s_mountpath), LAMBDA relpath :
             Let(file_open_sb_path(f, superblocks[sbi], relpath), LAMBDA o :
                 [res |-> o.res, f |-> o.f, cfds |-> o.cfds, hang |-> o.hang,
                  sb |-> sbi, relpath |-> relpath])))

\* file_open_path
file_open_path(f, cwd, path) == file_open_path_abs(f, path_join(PATH_MAX, cwd, path))

FileOpenPath(h, cwd, path) ==
    /\ Running
    /\ h \notin opened
    /\ \E o \in {file_open_path(files[h], cwd, path)} :
        /\ files' = [files EXCEPT ![h] = o.f]
        /\ cfdatas' = o.cfds
        /\ opened' = IF o.res >= 0 /\ ~o.hang THEN opened \cup {h} ELSE opened
        /\ ret' = [op |-> "file_open_path", h |-> h, res |-> o.res, hang |-> o.hang,
                   abspath |-> path_join(PATH_MAX, cwd, path), sb |-> o.sb,
                   relpath |-> o.relpath]
    /\ UNCHANGED <<ksh, regVars, mntVars, ramdisks, ttyVars>>

\* file_open_dev on a caller's file, for the ramdisk devices.
FileOpenDev(h, rdev) ==
    /\ Running
    /\ h \notin opened
    /\ \E o \in {file_open_dev(rdev)} :
        /\ files' = [files EXCEPT ![h] = o.f]
        /\ opened' = IF o.res >= 0 THEN opened \cup {h} ELSE opened
        /\ ret' = [op |-> "file_open_dev", h |-> h, res |-> o.res, hang |-> FALSE]
    /\ UNCHANGED <<ksh, regVars, mntVars, ramdisks, cfdatas, ttyVars>>

\* file_close: the driver's release, when it has one.
FileClose(h) ==
    /\ Running
    /\ h \in opened
    /\ cfdatas' = IF HasOp(files[h], "release") THEN cpio_file_release(files[h], cfdatas)
                  ELSE cfdatas
    /\ opened' = opened \ {h}
    /\ ret' = [op |-> "file_close", h |-> h, res |-> 0, hang |-> FALSE]
    /\ UNCHANGED <<ksh, regVars, mntVars, ramdisks, files, ttyVars>>

\* struct fstat: the metadata part of a struct file.
FstatOf(f) == [f_ino |-> f.f_ino, f_type |-> f.f_type, f_rdev |-> f.f_rdev,
               f_size |-> f.f_size]

\* What a caller's struct fstat holds before file_stat fills it.
OldFstat == [f_ino |-> 5, f_type |-> DT_CHR, f_rdev |-> 7, f_size |-> 9]

\* file_stat, were it to leave the file it opened open
file_stat_unclosed(cwd, path, old) ==
    Let(file_open_path(NullFile, cwd, path), LAMBDA o :
        IF o.hang \/ o.res < 0
            THEN [res |-> o.res, fstat |-> old, cfds |-> o.cfds, hang |-> o.hang,
                  sb |-> o.sb, relpath |-> o.relpath]
        ELSE [res |-> o.res, fstat |-> FstatOf(o.f), cfds |-> o.cfds,
              hang |-> FALSE, sb |-> o.sb, relpath |-> o.relpath])

\* file_stat: open the path on a file of its own, copy f_stat out, close.
\* old is what the caller's struct fstat held before the call.
file_stat(cwd, path, old) ==
    Let(file_open_path(NullFile, cwd, path), LAMBDA o :
        IF o.hang \/ o.res < 0
            THEN [res |-> o.res, fstat |-> old, cfds |-> o.cfds, hang |-> o.hang,
                  sb |-> o.sb, relpath |-> o.relpath]
        ELSE [res |-> o.res, fstat |-> FstatOf(o.f),
              cfds |-> IF HasOp(o.f, "release") THEN cpio_file_release(o.f, o.cfds)
                       ELSE o.cfds,
              hang |-> FALSE, sb |-> o.sb, relpath |-> o.relpath])

FileStat(cwd, path, old) ==
    /\ Running
    /\ \E r \in {file_stat(cwd, path, old)} :
        /\ cfdatas' = r.cfds
        /\ ret' = [op |-> "file_stat", res |-> r.res, hang |-> r.hang, fstat |-> r.fstat,
                   old |-> old, sb |-> r.sb, relpath |-> r.relpath]
    /\ UNCHANGED <<ksh, regVars, mntVars, ramdisks, files, opened, ttyVars>>

-----------------------------------------------------------------------------
(* cpiofs.c: read and readdir; vfs_file.c: the calls on a caller's file *)

\* cpio_file_read, were it to read the archive at the file's own offset
\* without adding where the file's data starts
cpio_file_read_raw(f, cfd, count, off) ==
    Let(rd_file_pread(cfd.af,
                      IF off + count > f.f_size THEN f.f_size - f.f_pos ELSE count,
                      off),
        LAMBDA r :
            IF r.res < 0 THEN [res |-> r.res, data |-> <<>>, off |-> off]
            ELSE [res |-> r.res, data |-> r.data, off |-> off + r.res])

\* cpio_file_read at offset off.  The clamp of count uses f_pos, whatever
\* off is; the archive file is read with file_pread, so its own position
\* stays; the offset handed back is off plus the bytes read.
cpio_file_read(f, cfd, count, off) ==
    Let(rd_file_pread(cfd.af,
                      IF off + count > f.f_size THEN f.f_size - f.f_pos ELSE count,
                      off + cfd.foff),
        LAMBDA r :
            IF r.res < 0 THEN [res |-> r.res, data |-> <<>>, off |-> off]
            ELSE [res |-> r.res, data |-> r.data, off |-> (off + cfd.foff + r.res) - cfd.foff])

\* The driver's read entry point of an open file.
driver_read(f, count, off) ==
    IF f.f_op = "ramdisk" THEN ramdisk_read(f, count, off)
    ELSE cpio_file_read(f, cfdatas[f.f_driver_data], count, off)

\* file_read, were it to hand the driver a copy of f_pos as file_pread does
file_read_copy(f, count) ==
    IF ~HasOp(f, "read") THEN [res |-> -EINVAL, data |-> <<>>, f |-> f]
    ELSE IF count = 0 THEN [res |-> 0, data |-> <<>>, f |-> f]
    ELSE Let(driver_read(f, count, f.f_pos), LAMBDA r :
             [res |-> r.res, data |-> r.data, f |-> f])

\* file_read: at f_pos, which the driver moves.
file_read(f, count) ==
    IF ~HasOp(f, "read") THEN [res |-> -EINVAL, data |-> <<>>, f |-> f]
    ELSE IF count = 0 THEN [res |-> 0, data |-> <<>>, f |-> f]
    ELSE Let(driver_read(f, count, f.f_pos), LAMBDA r :
             [res |-> r.res, data |-> r.data, f |-> [f EXCEPT !.f_pos = r.off]])

\* file_pread, were it to store the driver's new offset in f_pos
file_pread_moving(f, count, off) ==
    IF ~HasOp(f, "read") THEN [res |-> -EINVAL, data |-> <<>>, f |-> f]
    ELSE IF count = 0 THEN [res |-> 0, data |-> <<>>, f |-> f]
    ELSE Let(driver_read(f, count, off), LAMBDA r :
             [res |-> r.res, data |-> r.data, f |-> [f EXCEPT !.f_pos = r.off]])

\* file_pread: at a copy of off; f_pos is not passed to the driver.
file_pread(f, count, off) ==
    IF ~HasOp(f, "read") THEN [res |-> -EINVAL, data |-> <<>>, f |-> f]
    ELSE IF count = 0 THEN [res |-> 0, data |-> <<>>, f |-> f]
    ELSE Let(driver_read(f, count, off), LAMBDA r :
             [res |-> r.res, data |-> r.data, f |-> f])

\* The scan of cpio_file_readdir: headers are read and their data skipped
\* until the end marker (0) or a pathname that starts with dirpath (1).
RECURSIVE readdir_scan(_, _, _)
readdir_scan(af, dirpath, n) ==
    IF n >= MaxScan THEN [res |-> 0, af |-> af, h |-> NullHeader, hang |-> TRUE]
    ELSE Let(cpio_read_header(af), LAMBDA rh :
        IF rh.hang \/ rh.res < 0
            THEN [res |-> rh.res, af |-> rh.f, h |-> rh.h, hang |-> rh.hang]
        ELSE Let(cpio_skip_fdata(rh.f, rh.h), LAMBDA sk :
            IF sk.res < 0 THEN [res |-> sk.res, af |-> sk.f, h |-> rh.h, hang |-> FALSE]
            ELSE IF rh.h.is_endmarker THEN [res |-> 0, af |-> sk.f, h |-> rh.h, hang |-> FALSE]
            ELSE IF strncmp(rh.h.pathname, dirpath, strlen(dirpath)) = 0
                THEN [res |-> 1, af |-> sk.f, h |-> rh.h, hang |-> FALSE]
            ELSE readdir_scan(sk.f, dirpath, n + 1)))

\* cpio_file_readdir, were it to hand back the pathname with its prefix
cpio_file_readdir_whole(f, cfd) ==
    Let(IF strcmp(cfd.h.pathname, S_DOT) = 0 THEN <<>> ELSE cfd.h.pathname, LAMBDA dirpath :
    Let(IF f.f_pos = 0 THEN cpio_skip_fdata(cfd.af, cfd.h) ELSE [res |-> 0, f |-> cfd.af],
        LAMBDA sk0 :
        IF sk0.res < 0
            THEN [res |-> sk0.res, cfd |-> [cfd EXCEPT !.af = sk0.f], hang |-> FALSE,
                  d_type |-> DT_UNKNOWN, d_name |-> <<>>]
        ELSE Let(readdir_scan(sk0.f, dirpath, 0), LAMBDA sc :
            IF sc.hang \/ sc.res <= 0
                THEN [res |-> sc.res, cfd |-> [cfd EXCEPT !.af = sc.af], hang |-> sc.hang,
                      d_type |-> DT_UNKNOWN, d_name |-> <<>>]
            ELSE [res |-> 1, cfd |-> [cfd EXCEPT !.af = sc.af], hang |-> FALSE,
                  d_type |-> cpioh_fstat(sc.h, NullFile).f_type,
                  d_name |-> Truncate(sc.h.pathname, PATH_MAX - 1)])))

\* cpio_file_readdir: the context after the call, the result and the entry
\* (d_type and d_name; d_ino is copied from a field that is never written).
cpio_file_readdir(f, cfd) ==
    Let(IF strcmp(cfd.h.pathname, S_DOT) = 0 THEN <<>> ELSE cfd.h.pathname, LAMBDA dirpath :
    Let(IF f.f_pos = 0 THEN cpio_skip_fdata(cfd.af, cfd.h) ELSE [res |-> 0, f |-> cfd.af],
        LAMBDA sk0 :
        IF sk0.res < 0
            THEN [res |-> sk0.res, cfd |-> [cfd EXCEPT !.af = sk0.f], hang |-> FALSE,
                  d_type |-> DT_UNKNOWN, d_name |-> <<>>]
        ELSE Let(readdir_scan(sk0.f, dirpath, 0), LAMBDA sc :
            IF sc.hang \/ sc.res <= 0
                THEN [res |-> sc.res, cfd |-> [cfd EXCEPT !.af = sc.af], hang |-> sc.hang,
                      d_type |-> DT_UNKNOWN, d_name |-> <<>>]
            ELSE [res |-> 1, cfd |-> [cfd EXCEPT !.af = sc.af], hang |-> FALSE,
                  d_type |-> cpioh_fstat(sc.h, NullFile).f_type,
                  d_name |-> Truncate(path_strip_prefix(sc.h.pathname, dirpath),
                                      PATH_MAX - 1)])))

\* file_readdir, were it to look at the kind of the file first
file_readdir_kindfirst(f, cfds) ==
    IF f.f_type # DT_DIR
        THEN [res |-> -ENOTDIR, cfds |-> cfds, hang |-> FALSE, d_type |-> DT_UNKNOWN, d_name |-> <<>>]
    ELSE IF ~HasOp(f, "readdir")
        THEN [res |-> -EINVAL, cfds |-> cfds, hang |-> FALSE, d_type |-> DT_UNKNOWN, d_name |-> <<>>]
    ELSE Let(cpio_file_readdir(f, cfds[f.f_driver_data]), LAMBDA r :
             [res |-> r.res, cfds |-> [cfds EXCEPT ![f.f_driver_data] = r.cfd],
              hang |-> r.hang, d_type |-> r.d_type, d_name |-> r.d_name])

\* file_readdir, were it to call the driver whatever the kind of the file
file_readdir_anykind(f, cfds) ==
    IF ~HasOp(f, "readdir")
        THEN [res |-> -EINVAL, cfds |-> cfds, hang |-> FALSE, d_type |-> DT_UNKNOWN, d_name |-> <<>>]
    ELSE Let(cpio_file_readdir(f, cfds[f.f_driver_data]), LAMBDA r :
             [res |-> r.res, cfds |-> [cfds EXCEPT ![f.f_driver_data] = r.cfd],
              hang |-> r.hang, d_type |-> r.d_type, d_name |-> r.d_name])

\* file_readdir: the driver must supply readdir, then the file must be a
\* directory.
file_readdir(f, cfds) ==
    IF ~HasOp(f, "readdir")
        THEN [res |-> -EINVAL, cfds |-> cfds, hang |-> FALSE, d_type |-> DT_UNKNOWN, d_name |-> <<>>]
    ELSE IF f.f_type # DT_DIR
        THEN [res |-> -ENOTDIR, cfds |-> cfds, hang |-> FALSE, d_type |-> DT_UNKNOWN, d_name |-> <<>>]
    ELSE Let(cpio_file_readdir(f, cfds[f.f_driver_data]), LAMBDA r :
             [res |-> r.res, cfds |-> [cfds EXCEPT ![f.f_driver_data] = r.cfd],
              hang |-> r.hang, d_type |-> r.d_type, d_name |-> r.d_name])

MaxPos == 6       \* the highest position the model lets a file reach
MaxNeg == 2       \* how far below zero the model lets a position go

InPosRange(pos) == -MaxNeg <= pos /\ pos <= MaxPos

\* Positions within MaxNeg of the end of the file.
NearEnd(f, pos) == f.f_size - MaxNeg <= pos /\ pos <= f.f_size + MaxNeg

\* The positions the model reads from and seeks to: around the start and
\* around the end of the file.
Explored(f, pos) == InPosRange(pos) \/ NearEnd(f, pos)

\* file_read on a ramdisk or CPIO file.
FileRead(h, count) ==
    /\ Running
    /\ h \in opened
    /\ files[h].f_op \notin {"serial", "tty"}
    /\ Explored(files[h], files[h].f_pos)
    /\ \E r \in {file_read(files[h], count)} :
        /\ files' = [files EXCEPT ![h] = r.f]
        /\ ret' = [op |-> "file_read", h |-> h, res |-> r.res, hang |-> FALSE,
                   data |-> r.data, count |-> count, pos0 |-> files[h].f_pos]
    /\ UNCHANGED <<ksh, regVars, mntVars, ramdisks, opened, cfdatas, ttyVars>>

\* file_pread on a ramdisk or CPIO file.
FilePread(h, count, off) ==
    /\ Running
    /\ h \in opened
    /\ files[h].f_op \notin {"serial", "tty"}
    /\ \E r \in {file_pread(files[h], count, off)} :
        /\ files' = [files EXCEPT ![h] = r.f]
        /\ ret' = [op |-> "file_pread", h |-> h, res |-> r.res, hang |-> FALSE,
                   data |-> r.data, count |-> count, off |-> off,
                   pos0 |-> files[h].f_pos]
    /\ UNCHANGED <<ksh, regVars, mntVars, ramdisks, opened, cfdatas, ttyVars>>

\* file_write on a ramdisk or CPIO file: neither driver supplies write.
FileWrite(h, count) ==
    /\ Running
    /\ h \in opened
    /\ ~HasOp(files[h], "write")
    /\ ret' = [op |-> "file_write", h |-> h, res |-> -EINVAL, hang |-> FALSE]
    /\ UNCHANGED <<ksh, regVars, mntVars, ramdisks, fileVars, ttyVars>>

\* file_pwrite on a ramdisk or CPIO file: refused the same way.
FilePwrite(h, count, off) ==
    /\ Running
    /\ h \in opened
    /\ ~HasOp(files[h], "write")
    /\ ret' = [op |-> "file_pwrite", h |-> h, res |-> -EINVAL, hang |-> FALSE,
               count |-> count, off |-> off, pos0 |-> files[h].f_pos]
    /\ UNCHANGED <<ksh, regVars, mntVars, ramdisks, fileVars, ttyVars>>

FileLseek(h, off, whence) ==
    /\ Running
    /\ h \in opened
    /\ \E r \in {file_lseek(files[h], off, whence)} :
        /\ Explored(files[h], r.f.f_pos)
        /\ files' = [files EXCEPT ![h] = r.f]
        /\ ret' = [op |-> "file_lseek", h |-> h, res |-> r.res, hang |-> FALSE,
                   off |-> off, whence |-> whence, pos0 |-> files[h].f_pos]
    /\ UNCHANGED <<ksh, regVars, mntVars, ramdisks, opened, cfdatas, ttyVars>>

\* file_readdir; d_ino is whatever the uninitialised field held.
FileReaddir(h, ino) ==
    /\ Running
    /\ h \in opened
    /\ \E r \in {file_readdir(files[h], cfdatas)} :
        /\ cfdatas' = r.cfds
        /\ ret' = [op |-> "file_readdir", h |-> h, res |-> r.res, hang |-> r.hang,
                   d_type |-> r.d_type, d_name |-> r.d_name,
                   d_ino |-> IF r.res = 1 THEN ino ELSE 0]
    /\ UNCHANGED <<ksh, regVars, mntVars, ramdisks, files, opened, ttyVars>>

-----------------------------------------------------------------------------
(* serial.c: the port the TTY wraps.  The UART of serial 1 is a queue of    *)
(* received bytes (data ready while it is non-empty) and the sequence of    *)
(* bytes written to its data register.                                      *)

CTRL_D == 4
CTRL_U == 21
CH_BS  == 8       \* '\b'
CH_TAB == 9       \* '\t'
CH_NL  == 10      \* '\n'
CH_CR  == 13      \* '\r'
CH_DEL == 127     \* '\x7f'

PORT_NOS == <<1016, 760>>                                    \* 0x3f8, 0x2f8

HasFlag(flags, bit) == (flags \div bit) % 2 = 1              \* flags & bit

NoSerial == [port |-> 0, flags |-> 0]

\* A char holding byte b, read as an int.
AsChar(b) == IF b >= 128 THEN b - 256 ELSE b

\* ifilter
ifilter(s, ch) == IF HasFlag(s.flags, SRL_ICRNL) /\ ch = CH_CR THEN CH_NL ELSE ch

OFILTER_MAX == 2

\* ofilter: the bytes one byte of output becomes.
ofilter(s, ch) == IF HasFlag(s.flags, SRL_OCRNL) /\ ch = CH_NL THEN <<CH_CR, CH_NL>> ELSE <<ch>>

\* serial_read, were it to return 0 when no byte is ready
serial_read_eof(s, rx, count) ==
    IF count = 0 THEN [res |-> 0, data |-> <<>>, rx |-> rx]
    ELSE IF rx = <<>> THEN [res |-> 0, data |-> <<>>, rx |-> rx]
    ELSE LET n == MIN(count, Len(rx))
         IN  [res |-> n, data |-> [i \in 1..n |-> ifilter(s, rx[i])],
              rx |-> SubSeq(rx, n + 1, Len(rx))]

\* serial_read of count bytes with rx waiting in the UART: the bytes that
\* are there, filtered; try-again when there is none.
serial_read(s, rx, count) ==
    IF count = 0 THEN [res |-> 0, data |-> <<>>, rx |-> rx]
    ELSE IF rx = <<>> THEN [res |-> -EAGAIN, data |-> <<>>, rx |-> rx]
    ELSE LET n == MIN(count, Len(rx))
         IN  [res |-> n, data |-> [i \in 1..n |-> ifilter(s, rx[i])],
              rx |-> SubSeq(rx, n + 1, Len(rx))]

\* serial_write.  serial_writech returns the char it wrote, and a char
\* below zero is taken for an error and ends the write with that value.
RECURSIVE serial_write_from(_, _, _, _)
serial_write_from(s, src, n, tx) ==
    IF n > Len(src) THEN [res |-> Len(src), tx |-> tx]
    ELSE IF AsChar(src[n]) < 0 THEN [res |-> AsChar(src[n]), tx |-> tx \o ofilter(s, src[n])]
    ELSE serial_write_from(s, src, n + 1, tx \o ofilter(s, src[n]))

serial_write(s, src, tx) == serial_write_from(s, src, 1, tx)

\* serial_open_dev, were it to repeat the loopback test on every open
serial_open_dev_retest(f, min, srl, loop_ok) ==
    IF min < 1 \/ Len(PORT_NOS) < min THEN [res |-> -ENODEV, f |-> f, srl |-> srl]
    ELSE LET f1 == [f EXCEPT !.f_driver_data = min]
         IN  [res |-> IF loop_ok THEN 0 ELSE -EIO, f |-> f1,
              srl |-> [srl EXCEPT ![min].port = PORT_NOS[min]]]

\* serial_open_dev on the file f: the file, the serial table and the result.
\* loop_ok: did the loopback test read the test byte back?
serial_open_dev(f, min, srl, loop_ok) ==
    IF min < 1 \/ Len(PORT_NOS) < min THEN [res |-> -ENODEV, f |-> f, srl |-> srl]
    ELSE LET f1 == [f EXCEPT !.f_driver_data = min]
         IN  IF srl[min].port # 0 THEN [res |-> 0, f |-> f1, srl |-> srl]
             ELSE [res |-> IF loop_ok THEN 0 ELSE -EIO, f |-> f1,
                   srl |-> [srl EXCEPT ![min].port = PORT_NOS[min]]]

\* file_write to a port device: the driver's write when it has one.
port_write(portdev, src, tx) ==
    IF ~HasOp(portdev, "write") THEN [res |-> -EINVAL, tx |-> tx]
    ELSE IF src = <<>> THEN [res |-> 0, tx |-> tx]
    ELSE serial_write(serials[portdev.f_driver_data], src, tx)

\* file_read of one byte from a port device.
port_read(portdev, rx, count) ==
    IF ~HasOp(portdev, "read") THEN [res |-> -EINVAL, data |-> <<>>, rx |-> rx]
    ELSE serial_read(serials[portdev.f_driver_data], rx, count)

-----------------------------------------------------------------------------
(* tty.c: the line discipline.  ilen is the length of ibuf.                 *)

NoTty == [portdev |-> NullFile, flags |-> 0, initialized |-> FALSE,
          ibuf_eol |-> FALSE, ibuf_eof |-> FALSE, ibuf |-> <<>>]

ISCOOKED(tty) == HasFlag(tty.flags, TTY_COOKED)

isprint(c) == 32 <= c /\ c <= 126

\* "%02hhx" of a byte
HexLower(d) == IF d < 10 THEN 48 + d ELSE 97 + (d - 10)
Hex02(b) == <<HexLower(b \div 16), HexLower(b % 16)>>

\* echoc: the bytes written to the port device for the char ch, one
\* sequence per file_write call.
echoc(tty, ch) ==
    IF ~HasFlag(tty.flags, TTY_ECHO) THEN <<>>
    ELSE IF ~HasFlag(tty.flags, TTY_ECHOCTL) \/ isprint(AsChar(ch))
            \/ ch \in {CH_NL, CH_CR, CH_TAB, 0}
        THEN <<ch>>
    ELSE IF 0 <= AsChar(ch) /\ AsChar(ch) < 31 THEN <<94, ch + 64>>
    ELSE IF ch = CH_DEL THEN <<94, 63>>
    ELSE <<92, 120>> \o Hex02(ch)

\* echos
echos(tty, str) == IF HasFlag(tty.flags, TTY_ECHO) THEN str ELSE <<>>

S_ERASE == <<CH_BS, 32, CH_BS>>          \* "\b \b"
S_EOFECHO == <<94, 68, CH_NL>>           \* "^D\n"

\* add_to_inbuf
add_to_inbuf(tty, ch) ==
    IF Len(tty.ibuf) = IBUFSZ THEN [res |-> -ENOBUFS, tty |-> tty, echo |-> <<>>]
    ELSE [res |-> 0, tty |-> [tty EXCEPT !.ibuf = Append(@, ch)], echo |-> echoc(tty, ch)]

\* backspace that erases without echoing
backspace_silent(tty) ==
    IF Len(tty.ibuf) = 0 THEN [res |-> 0, tty |-> tty, echo |-> <<>>]
    ELSE [res |-> 0, tty |-> [tty EXCEPT !.ibuf = SubSeq(@, 1, Len(@) - 1)], echo |-> <<>>]

\* backspace
backspace(tty) ==
    IF Len(tty.ibuf) = 0 THEN [res |-> 0, tty |-> tty, echo |-> <<>>]
    ELSE [res |-> 0, tty |-> [tty EXCEPT !.ibuf = SubSeq(@, 1, Len(@) - 1)],
          echo |-> echos(tty, S_ERASE)]

\* clearline: backspace once for every byte of the buffer.
RECURSIVE clearline(_)
clearline(tty) ==
    IF Len(tty.ibuf) = 0 THEN [res |-> 0, tty |-> tty, echo |-> <<>>]
    ELSE Let(backspace(tty), LAMBDA b :
         Let(clearline(b.tty), LAMBDA c :
             [res |-> 0, tty |-> c.tty, echo |-> b.echo \o c.echo]))

\* on_eof without its mark of an end of file on an empty buffer
on_eof_unmarked(tty) == [tty EXCEPT !.ibuf_eol = TRUE]

\* on_eof, were it to mark an end of file whatever the buffer holds
on_eof_always(tty) == [tty EXCEPT !.ibuf_eol = TRUE, !.ibuf_eof = TRUE]

\* on_eof
on_eof(tty) ==
    [tty EXCEPT !.ibuf_eol = TRUE, !.ibuf_eof = IF Len(tty.ibuf) = 0 THEN TRUE ELSE @]

\* tty_inchar: the result, the tty and the bytes echoed to the port device.
tty_inchar(tty, ch) ==
    IF ~ISCOOKED(tty) THEN add_to_inbuf(tty, ch)
    ELSE IF tty.ibuf_eol THEN [res |-> -ENOBUFS, tty |-> tty, echo |-> <<>>]
    ELSE IF ch = CH_NL THEN add_to_inbuf([tty EXCEPT !.ibuf_eol = TRUE], ch)
    ELSE IF ch = CTRL_D
        THEN [res |-> 0, tty |-> on_eof([tty EXCEPT !.ibuf_eol = TRUE]),
              echo |-> echos(tty, S_EOFECHO)]
    ELSE IF ch = CH_BS \/ ch = CH_DEL THEN backspace(tty)
    ELSE IF ch = CTRL_U THEN clearline(tty)
    ELSE add_to_inbuf(tty, ch)

\* The read loop of tty_read.  st holds the tty, the UART queues, the result
\* of the last port read, the result of a failed tty_inchar (0 when none),
\* and the histories of this call: bytes taken and bytes echoed.
RECURSIVE tty_read_loop(_)
tty_read_loop(st) ==
    IF ~(Len(st.tty.ibuf) < IBUFSZ /\ ~st.tty.ibuf_eol) THEN st
    ELSE Let(port_read(st.tty.portdev, st.rx, 1), LAMBDA r :
        IF r.res <= 0 THEN [st EXCEPT !.portres = r.res]
        ELSE Let(tty_inchar(st.tty, r.data[1]), LAMBDA c :
             Let([st EXCEPT !.portres = r.res, !.rx = r.rx, !.tty = c.tty,
                            !.tx = port_write(st.tty.portdev, c.echo, st.tx).tx,
                            !.taken = Append(@, r.data[1]),
                            !.echo = @ \o c.echo], LAMBDA st1 :
                 IF c.res < 0 THEN [st1 EXCEPT !.inres = c.res]
                 ELSE tty_read_loop(st1))))

\* The rest of tty_read, were it to drop what the caller's count left over.
tty_read_yield_drop(tty, portres, count) ==
    IF Len(tty.ibuf) = 0 \/ (ISCOOKED(tty) /\ ~tty.ibuf_eol)
        THEN [res |-> -EAGAIN, data |-> <<>>, tty |-> tty]
    ELSE [res |-> UMIN(Len(tty.ibuf), count),
          data |-> SubSeq(tty.ibuf, 1, UMIN(Len(tty.ibuf), count)),
          tty |-> [tty EXCEPT !.ibuf = <<>>, !.ibuf_eol = FALSE]]

\* The rest of tty_read, were it not to wait for the rest of the line.
tty_read_yield_eager(tty, portres, count) ==
    IF Len(tty.ibuf) = 0
        THEN IF portres = 0 THEN [res |-> 0, data |-> <<>>, tty |-> tty]
             ELSE IF ISCOOKED(tty) /\ tty.ibuf_eof
                 THEN [res |-> 0, data |-> <<>>,
                       tty |-> [tty EXCEPT !.ibuf_eof = FALSE, !.ibuf_eol = FALSE]]
             ELSE [res |-> -EAGAIN, data |-> <<>>, tty |-> tty]
    ELSE LET retct == UMIN(Len(tty.ibuf), count)
         IN  [res |-> retct, data |-> SubSeq(tty.ibuf, 1, retct),
              tty |-> [tty EXCEPT !.ibuf = SubSeq(@, retct + 1, Len(@)),
                                  !.ibuf_eol = IF retct = Len(tty.ibuf) THEN FALSE ELSE @]]

\* The rest of tty_read, after the loop: what the call returns and copies out.
tty_read_yield(tty, portres, count) ==
    IF Len(tty.ibuf) = 0
        THEN IF portres = 0 THEN [res |-> 0, data |-> <<>>, tty |-> tty]
             ELSE IF ISCOOKED(tty) /\ tty.ibuf_eof
                 THEN [res |-> 0, data |-> <<>>,
                       tty |-> [tty EXCEPT !.ibuf_eof = FALSE, !.ibuf_eol = FALSE]]
             ELSE [res |-> -EAGAIN, data |-> <<>>, tty |-> tty]
    ELSE IF ISCOOKED(tty) /\ ~tty.ibuf_eol THEN [res |-> -EAGAIN, data |-> <<>>, tty |-> tty]
    ELSE LET retct == UMIN(Len(tty.ibuf), count)
         IN  [res |-> retct, data |-> SubSeq(tty.ibuf, 1, retct),
              tty |-> [tty EXCEPT !.ibuf = SubSeq(@, retct + 1, Len(@)),
                                  !.ibuf_eol = IF retct = Len(tty.ibuf) THEN FALSE ELSE @]]

\* tty_read
tty_read(tty, rx, tx, count) ==
    Let(tty_read_loop([tty |-> tty, rx |-> rx, tx |-> tx, portres |-> -EAGAIN,
                       inres |-> 0, taken |-> <<>>, echo |-> <<>>]), LAMBDA st :
        IF st.inres < 0
            THEN [res |-> st.inres, data |-> <<>>, tty |-> st.tty, rx |-> st.rx,
                  tx |-> st.tx, taken |-> st.taken, echo |-> st.echo]
        ELSE Let(tty_read_yield(st.tty, st.portres, count), LAMBDA y :
                 [res |-> y.res, data |-> y.data, tty |-> y.tty, rx |-> st.rx,
                  tx |-> st.tx, taken |-> st.taken, echo |-> st.echo]))

\* tty_open_dev on the file f with minor min, and through it file_open_dev
\* of the serial port.
tty_open_dev(f, min, loop_ok) ==
    IF min > TTY_CT THEN [res |-> -ENODEV, f |-> f, ttys |-> ttys, srl |-> serials]
    ELSE LET f1 == [f EXCEPT !.f_driver_data = min]
             p0 == [NullFile EXCEPT !.f_type = DT_CHR, !.f_op = chrdev_drivers[MAJ_SERIAL],
                                    !.f_rdev = MAKEDEV(MAJ_SERIAL, min)]
         IN  IF ttys[min].initialized
                 THEN [res |-> 0, f |-> f1, ttys |-> ttys, srl |-> serials]
             ELSE IF min = 0
                 THEN [res |-> -ENODEV, f |-> f1, ttys |-> ttys, srl |-> serials]
             ELSE IF chrdev_drivers[MAJ_SERIAL] = "NULL"
                 THEN [res |-> -ENODEV, f |-> f1, srl |-> serials,
                       ttys |-> [ttys EXCEPT ![min].portdev = NullFile]]
             ELSE Let(serial_open_dev(p0, min, serials, loop_ok), LAMBDA o :
                 IF o.res < 0
                     THEN [res |-> o.res, f |-> f1, srl |-> o.srl,
                           ttys |-> [ttys EXCEPT ![min].portdev = o.f]]
                 ELSE [res |-> 0, f |-> f1, srl |-> o.srl,
                       ttys |-> [ttys EXCEPT ![min].portdev = o.f, ![min].ibuf = <<>>,
                                             ![min].initialized = TRUE]])

TheTty(f) == ttys[f.f_driver_data]

\* file_open_dev of a TTY device on a caller's file.
TtyOpenDev(h, min, loop_ok) ==
    /\ Running
    /\ h \notin opened
    /\ chrdev_drivers[MAJ_TTY] = "tty"
    /\ \E o \in {tty_open_dev([NullFile EXCEPT !.f_type = DT_CHR, !.f_op = "tty",
                                               !.f_rdev = MAKEDEV(MAJ_TTY, min)],
                              min, loop_ok)} :
        /\ files' = [files EXCEPT ![h] = o.f]
        /\ ttys' = o.ttys
        /\ serials' = o.srl
        /\ opened' = IF o.res >= 0 THEN opened \cup {h} ELSE opened
        /\ ret' = [op |-> "file_open_dev", h |-> h, res |-> o.res, hang |-> FALSE]
    /\ UNCHANGED <<ksh, regVars, mntVars, ramdisks, cfdatas, uart_rx, uart_tx, wire,
                   port_log, taken, given, modes>>

\* tty_open_dev with min = TTY_CT, which the test `min > TTY_CT` lets
\* through: tty points one past the end of ttys, and what the call reads
\* there is not defined.  junk is the value it finds in tty->initialized.
\* When that is set the call succeeds at once; otherwise it opens serial
\* TTY_CT into the memory there, and on success writes ilen and initialized
\* there.  The writes land outside ttys and are not followed further.
tty_open_dev_beyond(f, junk, loop_ok) ==
    LET f1 == [f EXCEPT !.f_driver_data = TTY_CT]
        p0 == [NullFile EXCEPT !.f_type = DT_CHR, !.f_op = chrdev_drivers[MAJ_SERIAL],
                               !.f_rdev = MAKEDEV(MAJ_SERIAL, TTY_CT)]
    IN  IF junk THEN [res |-> 0, f |-> f1, ttys |-> ttys, srl |-> serials]
        ELSE IF chrdev_drivers[MAJ_SERIAL] = "NULL"
            THEN [res |-> -ENODEV, f |-> f1, ttys |-> ttys, srl |-> serials]
        ELSE Let(serial_open_dev(p0, TTY_CT, serials, loop_ok), LAMBDA o :
                 [res |-> IF o.res < 0 THEN o.res ELSE 0, f |-> f1, ttys |-> ttys,
                  srl |-> o.srl])

\* file_open_dev of the TTY device with minor TTY_CT on a caller's file.
TtyOpenDevBeyond(h, junk, loop_ok) ==
    /\ Running
    /\ h \notin opened
    /\ chrdev_drivers[MAJ_TTY] = "tty"
    /\ \E o \in {tty_open_dev_beyond([NullFile EXCEPT !.f_type = DT_CHR, !.f_op = "tty",
                                                      !.f_rdev = MAKEDEV(MAJ_TTY, TTY_CT)],
                                     junk, loop_ok)} :
        /\ files' = [files EXCEPT ![h] = o.f]
        /\ ttys' = o.ttys
        /\ serials' = o.srl
        /\ opened' = IF o.res >= 0 THEN opened \cup {h} ELSE opened
        /\ ret' = [op |-> "file_open_dev", h |-> h, res |-> o.res, hang |-> FALSE]
    /\ UNCHANGED <<ksh, regVars, mntVars, ramdisks, cfdatas, uart_rx, uart_tx, wire,
                   port_log, taken, given, modes>>

\* A byte arrives at the UART of serial 1.
UartReceive ==
    /\ Running
    /\ wire # <<>>
    /\ uart_rx' = Append(uart_rx, Head(wire))
    /\ wire' = Tail(wire)
    /\ UNCHANGED <<ksh, regVars, mntVars, ramdisks, fileVars, serials, uart_tx, ttys,
                   port_log, taken, given, modes, ret>>

\* A read of count > 0 bytes on an open TTY file, by file_read (op
\* "tty_read") or by file_pread at off: tty_read does not use the offset it
\* is handed.
TtyReadCall(h, count, op, off) ==
    /\ Running
    /\ h \in opened
    /\ files[h].f_op = "tty"
    /\ count > 0
    /\ \E r \in {tty_read(TheTty(files[h]), uart_rx, uart_tx, count)} :
        /\ ttys' = [ttys EXCEPT ![files[h].f_driver_data] = r.tty]
        /\ uart_rx' = r.rx
        /\ uart_tx' = r.tx
        /\ port_log' = port_log \o r.echo
        /\ taken' = taken \o r.taken
        /\ given' = given \o r.data
        /\ modes' = IF r.taken = <<>> THEN modes ELSE modes \cup {TheTty(files[h]).flags}
        /\ ret' = [op |-> op, h |-> h, res |-> r.res, hang |-> FALSE,
                   data |-> r.data, count |-> count, took |-> r.taken,
                   flags |-> TheTty(files[h]).flags, len0 |-> Len(TheTty(files[h]).ibuf),
                   prev |-> IF ret.op = "tty_read" THEN ret.res ELSE 1,
                   off |-> off, pos0 |-> files[h].f_pos]
    /\ UNCHANGED <<ksh, regVars, mntVars, ramdisks, fileVars, serials, wire>>

\* file_read on an open TTY file.
TtyRead(h, count) == TtyReadCall(h, count, "tty_read", files[h].f_pos)

\* file_pread on an open TTY file.
TtyPread(h, count, off) == TtyReadCall(h, count, "file_pread", off)

\* file_ioctl(f, TTY_SETFLAGS, flags) on an open TTY file.
TtyIoctl(h, flags) ==
    /\ Running
    /\ h \in opened
    /\ files[h].f_op = "tty"
    /\ TheTty(files[h]).ibuf = <<>> /\ uart_rx = <<>>
    /\ ttys' = [ttys EXCEPT ![files[h].f_driver_data].flags = flags]
    /\ ret' = [op |-> "file_ioctl", h |-> h, res |-> 0, hang |-> FALSE]
    /\ UNCHANGED <<ksh, regVars, mntVars, ramdisks, fileVars, serials, uart_rx, uart_tx,
                   wire, port_log, taken, given, modes>>

-----------------------------------------------------------------------------
(* Calls on an open serial file, and writes to an open TTY file *)

MaxTx == 6        \* bytes the model lets the data register of serial 1 take

\* file_open_dev of a serial device on a caller's file.
SerialOpenDev(h, min, loop_ok) ==
    /\ Running
    /\ h \notin opened
    /\ chrdev_drivers[MAJ_SERIAL] = "serial"
    /\ \E o \in {serial_open_dev([NullFile EXCEPT !.f_type = DT_CHR, !.f_op = "serial",
                                                  !.f_rdev = MAKEDEV(MAJ_SERIAL, min)],
                                 min, serials, loop_ok)} :
        /\ files' = [files EXCEPT ![h] = o.f]
        /\ serials' = o.srl
        /\ opened' = IF o.res >= 0 THEN opened \cup {h} ELSE opened
        /\ ret' = [op |-> "serial_open_dev", h |-> h, res |-> o.res, hang |-> FALSE,
                   min |-> min, loop_ok |-> loop_ok]
    /\ UNCHANGED <<ksh, regVars, mntVars, ramdisks, cfdatas, uart_rx, uart_tx, wire, ttys,
                   port_log, taken, given, modes>>

\* A read on a file open on serial 1, by file_read (op "serial_read") or by
\* file_pread at off: serial_read does not use the offset it is handed.
SerialReadCall(h, count, op, off) ==
    /\ Running
    /\ h \in opened
    /\ files[h].f_op = "serial" /\ files[h].f_driver_data = 1
    /\ \E r \in {port_read(files[h], uart_rx, count)} :
        /\ uart_rx' = r.rx
        /\ ret' = [op |-> op, h |-> h, res |-> r.res, hang |-> FALSE, data |-> r.data,
                   count |-> count, off |-> off, pos0 |-> files[h].f_pos,
                   rx0 |-> uart_rx, flags |-> serials[1].flags]
    /\ UNCHANGED <<ksh, regVars, mntVars, ramdisks, fileVars, serials, uart_tx, wire, ttys,
                   port_log, taken, given, modes>>

SerialRead(h, count) == SerialReadCall(h, count, "serial_read", files[h].f_pos)

SerialPread(h, count, off) == SerialReadCall(h, count, "file_pread", off)

\* A write of the bytes src on a file open on serial 1, by file_write (op
\* "serial_write") or by file_pwrite at off.
SerialWriteCall(h, src, op, off) ==
    /\ Running
    /\ h \in opened
    /\ files[h].f_op = "serial" /\ files[h].f_driver_data = 1
    /\ Len(uart_tx) + OFILTER_MAX * Len(src) <= MaxTx
    /\ \E r \in {port_write(files[h], src, uart_tx)} :
        /\ uart_tx' = r.tx
        /\ ret' = [op |-> op, h |-> h, res |-> r.res, hang |-> FALSE, src |-> src,
                   off |-> off, pos0 |-> files[h].f_pos,
                   tx0 |-> uart_tx, flags |-> serials[1].flags]
    /\ UNCHANGED <<ksh, regVars, mntVars, ramdisks, fileVars, serials, uart_rx, wire, ttys,
                   port_log, taken, given, modes>>

SerialWrite(h, src) == SerialWriteCall(h, src, "serial_write", files[h].f_pos)

SerialPwrite(h, src, off) == SerialWriteCall(h, src, "file_pwrite", off)

\* file_ioctl(f, SRL_SETFLAGS, flags) on an open serial file.
SerialIoctl(h, flags) ==
    /\ Running
    /\ h \in opened
    /\ files[h].f_op = "serial"
    /\ serials' = [serials EXCEPT ![files[h].f_driver_data].flags = flags]
    /\ ret' = [op |-> "file_ioctl", h |-> h, res |-> 0, hang |-> FALSE]
    /\ UNCHANGED <<ksh, regVars, mntVars, ramdisks, fileVars, uart_rx, uart_tx, wire, ttys,
                   port_log, taken, given, modes>>

\* A write of the bytes src on an open TTY file, by file_write (op
\* "tty_write") or by file_pwrite at off: tty_write hands src to file_write
\* on its port device.
TtyWriteCall(h, src, op, off) ==
    /\ Running
    /\ h \in opened
    /\ files[h].f_op = "tty"
    /\ src # <<>>
    /\ Len(uart_tx) + OFILTER_MAX * Len(src) <= MaxTx
    /\ \E r \in {port_write(TheTty(files[h]).portdev, src, uart_tx)} :
        /\ uart_tx' = r.tx
        /\ port_log' = port_log \o src
        /\ ret' = [op |-> op, h |-> h, res |-> r.res, hang |-> FALSE, src |-> src,
                   off |-> off, pos0 |-> files[h].f_pos]
    /\ UNCHANGED <<ksh, regVars, mntVars, ramdisks, fileVars, serials, uart_rx, wire, ttys,
                   taken, given, modes>>

TtyWrite(h, src) == TtyWriteCall(h, src, "tty_write", files[h].f_pos)

TtyPwrite(h, src, off) == TtyWriteCall(h, src, "file_pwrite", off)

-----------------------------------------------------------------------------
(* vfs_file.c, vfs_fs.c: the six calls on any struct file pointer.  fp is a *)
(* caller's file, or NullPtr.                                               *)

NullPtr == 0

\* !f || !f->f_op
NoTable(fp) == fp = NullPtr \/ files[fp].f_op = "NULL"

\* return -EINVAL, before anything else is done
Refuse(op, fp) ==
    /\ Running
    /\ ret' = [op |-> op, h |-> fp, res |-> -EINVAL, hang |-> FALSE]
    /\ UNCHANGED <<ksh, regVars, mntVars, ramdisks, fileVars, ttyVars>>

FileReadAny(fp, count) ==
    IF NoTable(fp) THEN Refuse("file_read", fp)
    ELSE IF files[fp].f_op = "serial" THEN SerialRead(fp, count)
    ELSE FileRead(fp, count)

FilePreadAny(fp, count, off) ==
    IF NoTable(fp) THEN Refuse("file_pread", fp)
    ELSE IF files[fp].f_op = "serial" THEN SerialPread(fp, count, off)
    ELSE FilePread(fp, count, off)

FileWriteAny(fp, src) ==
    IF NoTable(fp) THEN Refuse("file_write", fp)
    ELSE IF files[fp].f_op = "serial" THEN SerialWrite(fp, src)
    ELSE FileWrite(fp, Len(src))

FilePwriteAny(fp, src, off) ==
    IF NoTable(fp) THEN Refuse("file_pwrite", fp)
    ELSE IF files[fp].f_op = "serial" THEN SerialPwrite(fp, src, off)
    ELSE FilePwrite(fp, Len(src), off)

FileIoctlAny(fp, flags) ==
    IF NoTable(fp) THEN Refuse("file_ioctl", fp)
    ELSE IF ~HasOp(files[fp], "ioctl") THEN fp \in opened /\ Refuse("file_ioctl", fp)
    ELSE SerialIoctl(fp, flags)

FileReaddirAny(fp) ==
    IF NoTable(fp) THEN Refuse("file_readdir", fp)
    ELSE FileReaddir(fp, 0)

-----------------------------------------------------------------------------
(* kshell.c: the shell on tty 1.  kshell_init_run opens the TTY (TtyOpenDev *)
(* on file 1), kshell_init_tty sets the shell up, kshell_run turns.         *)

E2BIG == 10
SH_LINEBUFSZ == 256
SH_ARGVSZ == 16

\* pc: "off" before kshell_init_tty, "run" inside kshell_run, "done" when
\* kshell_run has returned res.
NoShell == [waiting_for_input |-> 0, pc |-> "off", res |-> 0]

\* The file sh->in, sh->out and sh->err point to.
ShellFile == 1

isspace(c) == c \in {32, 9, 10, 13, 12, 11}
isgraph(c) == 33 <= c /\ c <= 126

\* sh_break_cmdline from the i-th byte on: the number of words, or -E2BIG at
\* the word that finds argv full.
RECURSIVE sh_break_from(_, _, _, _, _)
sh_break_from(cmdline, i, argc, inword, argn) ==
    IF i > Len(cmdline) \/ cmdline[i] = 0 THEN argc
    ELSE LET ch == AsChar(cmdline[i])
             w  == IF isspace(ch) THEN FALSE ELSE inword
         IN  IF ~isgraph(ch) THEN sh_break_from(cmdline, i + 1, argc, w, argn)
             ELSE IF w THEN sh_break_from(cmdline, i + 1, argc, TRUE, argn)
             ELSE IF argc < argn THEN sh_break_from(cmdline, i + 1, argc + 1, TRUE, argn)
             ELSE -E2BIG

sh_break_cmdline(cmdline, argn) == sh_break_from(cmdline, 1, 0, FALSE, argn)

\* argv[0] after sh_break_cmdline: from the first graphic byte to the byte
\* before the first space after it.
Argv0(cmdline) ==
    LET starts == {i \in 1..Len(cmdline) : isgraph(AsChar(cmdline[i]))}
        a      == MinOf(starts)
        ends   == {j \in a..Len(cmdline) : isspace(AsChar(cmdline[j])) \/ cmdline[j] = 0}
        z      == IF ends = {} THEN Len(cmdline) + 1 ELSE MinOf(ends)
    IN  IF starts = {} THEN <<>> ELSE SubSeq(cmdline, a, z - 1)

\* file_write of a text on the port device, taken in halves: serial_write
\* writes the bytes one after the other and stops at the first it takes for
\* an error, so the halves give what the whole gives.
RECURSIVE port_write_text(_, _, _)
port_write_text(portdev, src, tx) ==
    IF Len(src) <= 8 THEN port_write(portdev, src, tx)
    ELSE Let(port_write_text(portdev, SubSeq(src, 1, Len(src) \div 2), tx), LAMBDA a :
        IF a.res # Len(src) \div 2 THEN a
        ELSE Let(port_write_text(portdev, SubSeq(src, Len(src) \div 2 + 1, Len(src)),
                                 a.tx), LAMBDA b :
                 [res |-> IF b.res < 0 THEN b.res ELSE a.res + b.res, tx |-> b.tx]))

S_PROMPT == <<62, 32>>                                           \* "> "
\* " kshell tty1\n": the banner, without the kernel's name and version, which
\* the build supplies
S_BANNER ==
    <<32, 107, 115, 104, 101, 108, 108, 32, 116, 116, 121, 49, 10>>
\* "kshell: unknown or program: "
S_UNKNOWN ==
    <<107, 115, 104, 101, 108, 108, 58, 32, 117, 110, 107, 110, 111, 119,
      110, 32, 111, 114, 32, 112, 114, 111, 103, 114, 97, 109, 58, 32>>
\* print_cmds: "kshell: built-in commands: help, inputtest, mount, pwd, ls,
\* stat, xhead, reset\n"
S_BUILTINS ==
    <<107, 115, 104, 101, 108, 108, 58, 32, 98, 117, 105, 108, 116, 45, 105,
      110, 32, 99, 111, 109, 109, 97, 110, 100, 115, 58, 32, 104, 101, 108,
      112, 44, 32, 105, 110, 112, 117, 116, 116, 101, 115, 116, 44, 32, 109,
      111, 117, 110, 116, 44, 32, 112, 119, 100, 44, 32, 108, 115, 44, 32,
      115, 116, 97, 116, 44, 32, 120, 104, 101, 97, 100, 44, 32, 114, 101,
      115, 101, 116, 10>>
\* "] kshell_read_exec: could not read command line\n"
S_READERR ==
    <<93, 32, 107, 115, 104, 101, 108, 108, 95, 114, 101, 97, 100, 95, 101,
      120, 101, 99, 58, 32, 99, 111, 117, 108, 100, 32, 110, 111, 116, 32,
      114, 101, 97, 100, 32, 99, 111, 109, 109, 97, 110, 100, 32, 108, 105,
      110, 101, 10>>
\* "kshell: ["
S_ERRPREFIX ==
    <<107, 115, 104, 101, 108, 108, 58, 32, 91>>

\* KSH_CMDS: the names of the built-in commands.
KSH_CMDS ==
    {<<104, 101, 108, 112>>,
     <<105, 110, 112, 117, 116, 116, 101, 115, 116>>,
     <<109, 111, 117, 110, 116>>,
     <<112, 119, 100>>,
     <<108, 115>>,
     <<115, 116, 97, 116>>,
     <<120, 104, 101, 97, 100>>,
     <<114, 101, 115, 101, 116>>}

\* BIN_PATHS, and the shell's first cwd
S_ROOT    == <<47>>                                  \* "/"
S_SLBIN   == <<47>> \o S_BIN                         \* "/bin"
S_SLSBIN == <<47, 115, 98, 105, 110>>

\* strerror, for the errors a TTY read returns
strerror(e) == IF e = ENOBUFS THEN <<69, 78, 79, 66, 85, 70, 83>> ELSE <<69, 73, 78, 86, 65, 76>>

\* reporterr in kshell_read_exec after the read: what it prints for res.
reporterr_read(res) ==
    IF res < 0 THEN S_ERRPREFIX \o strerror(-res) \o S_READERR ELSE <<>>

\* kshell_search_bin: the directory of BIN_PATHS that holds a regular file
\* named execname, "NULL" when a file_stat fails or none does.  What a
\* failing file_stat other than -ENOENT makes it print is left out.
kshell_search_bin(execname) ==
    Let(file_stat(S_SLSBIN, execname, OldFstat), LAMBDA r1 :
        IF r1.res # -ENOENT /\ r1.res < 0 THEN "NULL"
        ELSE IF r1.res >= 0 /\ r1.fstat.f_type = DT_REG THEN "/sbin"
        ELSE Let(file_stat(S_SLBIN, execname, OldFstat), LAMBDA r2 :
            IF r2.res >= 0 /\ r2.fstat.f_type = DT_REG THEN "/bin" ELSE "NULL"))

\* kshell_read_exec for a line whose first word is neither a built-in
\* command nor a program: the value returned, the shell after it, what the
\* TTY read did, and what was printed before (pre) and after (post) the read.
kshell_read_exec(sh, tty, rx, tx) ==
    LET pre == IF sh.waiting_for_input = 0 THEN S_PROMPT ELSE <<>>
        sh1 == [sh EXCEPT !.waiting_for_input = 1]
    IN  Let(tty_read(tty, rx, port_write(tty.portdev, pre, tx).tx, SH_LINEBUFSZ - 1),
            LAMBDA r :
        IF r.res = -EAGAIN
            THEN [res |-> -EAGAIN, sh |-> sh1, r |-> r, pre |-> pre, post |-> <<>>,
                  argc |-> 0]
        ELSE IF r.res < 0
            THEN [res |-> r.res, sh |-> sh1, r |-> r, pre |-> pre,
                  post |-> reporterr_read(r.res), argc |-> 0]
        ELSE IF r.res = 0
            THEN [res |-> 0, sh |-> sh1, r |-> r, pre |-> pre, post |-> <<>>, argc |-> 0]
        ELSE Let(sh_break_cmdline(r.data, SH_ARGVSZ), LAMBDA argc :
            LET sh2 == [sh1 EXCEPT !.waiting_for_input = 0]
            IN  IF argc < 0
                    THEN [res |-> argc, sh |-> sh2, r |-> r, pre |-> pre, post |-> <<>>,
                          argc |-> argc]
                ELSE IF argc = 0
                    THEN [res |-> -EAGAIN, sh |-> sh2, r |-> r, pre |-> pre,
                          post |-> <<>>, argc |-> argc]
                ELSE [res |-> -EAGAIN, sh |-> sh2, r |-> r, pre |-> pre,
                      post |-> S_UNKNOWN \o Argv0(r.data) \o <<CH_NL>> \o S_BUILTINS,
                      argc |-> argc]))

\* Whether the line read names a built-in command or a program.
RunsCommand(line) ==
    /\ sh_break_cmdline(line, SH_ARGVSZ) > 0
    /\ Argv0(line) \in KSH_CMDS \/ kshell_search_bin(Argv0(line)) # "NULL"

\* kshell_init_tty on the TTY file 1 that kshell_init_run has opened: the
\* shell is set up, the banner printed, the TTY set to echo and cooked.
KshellInitTty ==
    /\ Running
    /\ ksh.pc = "off"
    /\ ShellFile \in opened /\ files[ShellFile].f_op = "tty"
    /\ LET tty == TheTty(files[ShellFile])
       IN  /\ uart_tx' = port_write_text(tty.portdev, S_BANNER, uart_tx).tx
           /\ port_log' = port_log \o S_BANNER
           /\ ttys' = [ttys EXCEPT ![files[ShellFile].f_driver_data].flags =
                                       TTY_ECHO + TTY_COOKED]
    /\ ksh' = [waiting_for_input |-> 0, pc |-> "run", res |-> 0]
    /\ ret' = [op |-> "kshell_init_tty", res |-> 0, hang |-> FALSE]
    /\ UNCHANGED <<regVars, mntVars, ramdisks, fileVars, serials, uart_rx, wire, taken,
                   given, modes>>

\* One turn of the loop of kshell_run: kshell_read_exec, then go round again
\* on -EAGAIN and return on any other value below zero and on 0.
KshellRun ==
    /\ Running
    /\ ksh.pc = "run"
    /\ \E x \in {kshell_read_exec(ksh, TheTty(files[ShellFile]), uart_rx, uart_tx)} :
        /\ x.r.res > 0 => ~RunsCommand(x.r.data)
        /\ ksh' = IF x.res = -EAGAIN \/ x.res > 0 THEN x.sh
                  ELSE [x.sh EXCEPT !.pc = "done", !.res = x.res]
        /\ ttys' = [ttys EXCEPT ![files[ShellFile].f_driver_data] = x.r.tty]
        /\ uart_rx' = x.r.rx
        /\ uart_tx' = port_write_text(TheTty(files[ShellFile]).portdev, x.post, x.r.tx).tx
        /\ port_log' = port_log \o x.pre \o x.r.echo \o x.post
        /\ taken' = taken \o x.r.taken
        /\ given' = given \o x.r.data
        /\ modes' = IF x.r.taken = <<>> THEN modes
                    ELSE modes \cup {TheTty(files[ShellFile]).flags}
        /\ ret' = [op |-> "kshell_read_exec", res |-> x.res, hang |-> FALSE,
                   rd |-> x.r.res, line |-> x.r.data, argc |-> x.argc,
                   prompt |-> x.pre, waiting |-> ksh.waiting_for_input]
    /\ UNCHANGED <<regVars, mntVars, ramdisks, fileVars, serials, wire>>

-----------------------------------------------------------------------------
(* Initial states *)

Handles == {1, 2}


\* Static storage as the loader leaves it: everything zero.
InitZero ==
    /\ chrdev_drivers = [i \in 0..(MAJORS_MAX - 1) |-> "NULL"]
    /\ fs_drivers = [i \in 0..(FSTYPES_MAX - 1) |-> "NULL"]
    /\ superblocks = [i \in 0..(SB_MAX - 1) |-> NullSb]
    /\ vfs_mount_list = <<>>
    /\ ramdisks = [i \in 0..(RAMDISKS_MAX - 1) |-> NoRamdisk]
    /\ files = [h \in Handles |-> NullFile]
    /\ opened = {}
    /\ cfdatas = [i \in 0..(MAX_CPIO_OPEN - 1) |-> NullCfdata]
    /\ serials = [m \in 1..Len(PORT_NOS) |-> NoSerial]
    /\ uart_rx = <<>>
    /\ uart_tx = <<>>
    /\ wire = <<>>
    /\ ttys = [i \in 0..(TTY_CT - 1) |-> NoTty]
    /\ port_log = <<>>
    /\ taken = <<>>
    /\ given = <<>>
    /\ modes = {}
    /\ ksh = NoShell
    /\ ret = NoRet

\* kernel_main up to mount_initrd: the three character drivers and the CPIO
\* filesystem are registered, init_log has opened serial 1 and turned its
\* newline fixes on, and the ramdisks exist.
BootChrdevs ==
    [i \in 0..(MAJORS_MAX - 1) |->
        IF i = MAJ_SERIAL THEN "serial" ELSE IF i = MAJ_TTY THEN "tty"
        ELSE IF i = MAJ_RAMDISK THEN "ramdisk" ELSE "NULL"]
BootFs == [i \in 0..(FSTYPES_MAX - 1) |-> IF i = FS_CPIO THEN "cpiofs" ELSE "NULL"]
BootSerials ==
    [m \in 1..Len(PORT_NOS) |->
        IF m = 1 THEN [port |-> PORT_NOS[1], flags |-> SRL_ICRNL + SRL_OCRNL] ELSE NoSerial]

\* The boot state with the superblocks sbs on the mount list mnt, and the
\* bytes w still to arrive on serial 1.
Booted(sbs, mnt, w) ==
    /\ chrdev_drivers = BootChrdevs
    /\ fs_drivers = BootFs
    /\ superblocks = sbs
    /\ vfs_mount_list = mnt
    /\ ramdisks = BootRamdisks
    /\ files = [h \in Handles |-> NullFile]
    /\ opened = {}
    /\ cfdatas = [i \in 0..(MAX_CPIO_OPEN - 1) |-> NullCfdata]
    /\ serials = BootSerials
    /\ uart_rx = <<>>
    /\ uart_tx = <<>>
    /\ wire = w
    /\ ttys = [i \in 0..(TTY_CT - 1) |-> NoTty]
    /\ port_log = <<>>
    /\ taken = <<>>
    /\ given = <<>>
    /\ modes = {}
    /\ ksh = NoShell
    /\ ret = NoRet

NoSbs == [i \in 0..(SB_MAX - 1) |-> NullSb]

\* The boot state with the ramdisks rds, the superblocks sbs on the mount
\* list mnt, and the callers' files hs, none of them open; r is the call
\* about to be made, or NoRet.
BootedWith(rds, sbs, mnt, hs, r) ==
    /\ chrdev_drivers = BootChrdevs
    /\ fs_drivers = BootFs
    /\ superblocks = sbs
    /\ vfs_mount_list = mnt
    /\ ramdisks = rds
    /\ files = [h \in hs |-> NullFile]
    /\ opened = {}
    /\ cfdatas = [i \in 0..(MAX_CPIO_OPEN - 1) |-> NullCfdata]
    /\ serials = BootSerials
    /\ uart_rx = <<>>
    /\ uart_tx = <<>>
    /\ wire = <<>>
    /\ ttys = [i \in 0..(TTY_CT - 1) |-> NoTty]
    /\ port_log = <<>>
    /\ taken = <<>>
    /\ given = <<>>
    /\ modes = {}
    /\ ksh = NoShell
    /\ ret = r

BootedOn(rds, sbs, mnt, hs) == BootedWith(rds, sbs, mnt, hs, NoRet)

InitBoot == Booted(NoSbs, <<>>, <<>>)

\* mount_initrd has mounted ramdisk 0 on "/".
InitrdSbs ==
    [NoSbs EXCEPT ![0] = [s_op |-> "cpiofs", s_bdev |-> MAKEDEV(MAJ_RAMDISK, 0),
                          s_mountpath |-> S_ROOT, s_root_ino |-> 0]]

InitMounted == Booted(InitrdSbs, <<0>>, <<>>)

-----------------------------------------------------------------------------
(* SpecReg: driver registration from the zeroed tables *)

NextReg ==
    \/ \E maj \in {0, MAJ_SERIAL, MAJ_TTY, MAJORS_MAX}, fops \in ChrdevOps :
            ChrdevRegister(maj, fops)
    \/ \E id \in {0, FS_CPIO, FSTYPES_MAX}, ops \in FsOps : FsRegister(id, ops)

SpecReg == InitZero /\ [][NextReg]_vars

-----------------------------------------------------------------------------
(* SpecMount: mounting in any order, and opening paths through the mounts *)

\* Ramdisk 0 on "/" and ramdisk 1 on "/bin" mount; an unregistered
\* filesystem type, an archive without ".", and a missing ramdisk do not.
MountArgs ==
    {<<MAKEDEV(MAJ_RAMDISK, 0), FS_CPIO, S_ROOT>>,
     <<MAKEDEV(MAJ_RAMDISK, 1), FS_CPIO, S_SLBIN>>,
     <<MAKEDEV(MAJ_RAMDISK, 0), 1, S_ROOT>>,
     <<MAKEDEV(MAJ_RAMDISK, 2), FS_CPIO, S_SLBIN>>,
     <<MAKEDEV(MAJ_RAMDISK, 3), FS_CPIO, S_ROOT>>}

OpenArgs ==
    {<<S_ROOT, S_BINHELLO>>, <<S_SLBIN, S_HELLO>>, <<S_ROOT, <<>>>>,
     <<S_ROOT, S_SLBIN>>, <<S_ROOT, S_NOFILE>>}

NextMount ==
    \/ \E a \in MountArgs : FsMountdev(a[1], a[2], a[3])
    \/ \E a \in OpenArgs : FileOpenPath(1, a[1], a[2])
    \/ FileClose(1)

SpecMount == InitBoot /\ [][NextMount]_vars

\* SpecMountAny: the same, with the boot modules intact or damaged.
InitMountAny == \E rds \in {BootRamdisks, DamagedRamdisks} :
                    BootedOn(rds, NoSbs, <<>>, Handles)

SpecMountAny == InitMountAny /\ [][NextMount]_vars

-----------------------------------------------------------------------------
(* SpecEntry: the six calls on a null pointer, on files never opened, and   *)
(* on files open on the archive, on a ramdisk and on serial 1               *)

Pointers == {NullPtr} \cup Handles
EntrySrc == <<97>>

NextEntry ==
    \/ \E p \in {S_BINHELLO, <<>>} : FileOpenPath(1, S_ROOT, p)
    \/ FileOpenDev(2, MAKEDEV(MAJ_RAMDISK, 0))
    \/ SerialOpenDev(2, 1, TRUE)
    \/ \E h \in Handles : FileClose(h)
    \/ \E fp \in Pointers : FileReadAny(fp, 2)
    \/ \E fp \in Pointers : FilePreadAny(fp, 2, 4)
    \/ \E fp \in Pointers : FileWriteAny(fp, EntrySrc)
    \/ \E fp \in Pointers : FilePwriteAny(fp, EntrySrc, 4)
    \/ \E fp \in Pointers : FileIoctlAny(fp, 0)
    \/ \E fp \in Pointers : FileReaddirAny(fp)

SpecEntry == InitMounted /\ [][NextEntry]_vars

-----------------------------------------------------------------------------
(* SpecFile: two callers' files on the mounted initrd and on its ramdisk *)

FilePaths   == {S_BINHELLO, S_BIN}
ReadCounts  == {0, 2, 8}
SeekOffsets == {-2, 0, 3}
Whences     == {0, SEEK_SET, SEEK_CUR, SEEK_END}

NextFile ==
    \/ \E h \in Handles, p \in FilePaths : FileOpenPath(h, S_ROOT, p)
    \/ FileOpenDev(1, MAKEDEV(MAJ_RAMDISK, 0))
    \/ FileClose(2)
    \/ \E n \in ReadCounts : FileRead(1, n)
    \/ FileRead(2, 2)
    \/ \E off \in {0, 4} : FilePread(1, 2, off)
    \/ FileWrite(1, 1)
    \/ \E off \in SeekOffsets, w \in Whences : FileLseek(1, off, w)
    \/ \E h \in Handles, ino \in {0, 7} : FileReaddir(h, ino)

SpecFile == InitMounted /\ [][NextFile]_vars

-----------------------------------------------------------------------------
(* SpecRead: one caller's file on the archives and on the ramdisks, read,   *)
(* listed and moved from positions around both ends of the file             *)

\* The shell has mounted ramdisk 1 on "/bin" after the initrd.
BinSbs ==
    [InitrdSbs EXCEPT ![1] = [s_op |-> "cpiofs", s_bdev |-> MAKEDEV(MAJ_RAMDISK, 1),
                              s_mountpath |-> S_SLBIN, s_root_ino |-> 1]]

InitRead == InitMounted \/ Booted(BinSbs, <<0, 1>>, <<>>)

ReadPaths    == {S_BINHELLO, S_BIN, <<>>, S_NOFILE}
ReadSizes    == {0, 3, 6, 8}
PreadOffsets == {-1, 0, 4, 7}
SeekArgs     == {<<-2, SEEK_SET>>, <<0, SEEK_SET>>, <<4, SEEK_CUR>>,
                 <<-2, SEEK_END>>, <<0, SEEK_END>>, <<1, SEEK_END>>}

NextRead ==
    \/ \E p \in ReadPaths : FileOpenPath(1, S_ROOT, p)
    \/ \E min \in {2, 3} : FileOpenDev(1, MAKEDEV(MAJ_RAMDISK, min))
    \/ FileClose(1)
    \/ \E n \in ReadSizes : FileRead(1, n)
    \/ \E n \in {2, 8}, off \in PreadOffsets : FilePread(1, n, off)
    \/ FileWrite(1, 1)
    \/ FilePwrite(1, 2, 0)
    \/ \E a \in SeekArgs : FileLseek(1, a[1], a[2])
    \/ FileReaddir(1, 7)

SpecRead == InitRead /\ [][NextRead]_vars

-----------------------------------------------------------------------------
(* SpecTTY: tty 1 over serial 1, with input arriving byte by byte *)

MaxShort == 2     \* length of the longest script drawn from ShortAlphabet

ShortAlphabet == {97, CH_BS, CH_NL, CTRL_D}

RECURSIVE SeqsUpTo(_, _)
SeqsUpTo(A, n) ==
    IF n = 0 THEN {<<>>}
    ELSE LET S == SeqsUpTo(A, n - 1)
         IN  S \cup {Append(s, a) : s \in {t \in S : Len(t) = n - 1}, a \in A}

S_EDIT == <<97, 98, CH_BS, CH_BS, 99, 100, CH_NL>>               \* "ab\b\bcd\n"

Scripts ==
    SeqsUpTo(ShortAlphabet, MaxShort)
    \cup {S_EDIT,
          <<97, CTRL_D, 98, CH_NL>>,                             \* "a^Db\n"
          <<97, 98, CH_NL, 99, 100, CH_NL>>,                     \* "ab\ncd\n"
          <<97, CH_DEL, CH_DEL, 98, CH_CR>>,                     \* "a\x7f\x7fb\r"
          <<97, 98, CTRL_U, 99, CH_NL>>}                         \* "ab^Uc\n"

TtyFlags == {0, TTY_COOKED, TTY_ECHO + TTY_COOKED}

\* What arrives on serial 1, what is written to it and the flag words it is
\* given in the runs of the serial driver alone.
SerialScripts == {<<97, CH_CR, 98>>, <<CH_CR, CH_NL>>}             \* "a\rb", "\r\n"
SerialSources == {<<97, CH_NL, 98>>, <<128, 97>>}                  \* "a\nb", "\x80a"
SerialFlags == {0, SRL_ICRNL, SRL_OCRNL}

InitTTY == \E w \in Scripts : Booted(InitrdSbs, <<0>>, w)

NextTTY ==
    \/ \E min \in {0, 1, TTY_CT + 1}, ok \in BOOLEAN : TtyOpenDev(1, min, ok)
    \/ UartReceive
    \/ \E n \in {1, 8} : TtyRead(1, n)
    \/ \E fl \in TtyFlags : TtyIoctl(1, fl)

SpecTTY == InitTTY /\ [][NextTTY]_vars

\* kernel_main after init_driver_serial and before init_log: the serial
\* driver is registered and no unit has been opened; w is what will arrive
\* on serial 1.
InitSerial ==
    \E w \in SerialScripts :
        /\ chrdev_drivers = [i \in 0..(MAJORS_MAX - 1) |->
                                IF i = MAJ_SERIAL THEN "serial" ELSE "NULL"]
        /\ fs_drivers = [i \in 0..(FSTYPES_MAX - 1) |-> "NULL"]
        /\ superblocks = NoSbs
        /\ vfs_mount_list = <<>>
        /\ ramdisks = [i \in 0..(RAMDISKS_MAX - 1) |-> NoRamdisk]
        /\ files = [h \in Handles |-> NullFile]
        /\ opened = {}
        /\ cfdatas = [i \in 0..(MAX_CPIO_OPEN - 1) |-> NullCfdata]
        /\ serials = [m \in 1..Len(PORT_NOS) |-> NoSerial]
        /\ uart_rx = <<>>
        /\ uart_tx = <<>>
        /\ wire = w
        /\ ttys = [i \in 0..(TTY_CT - 1) |-> NoTty]
        /\ port_log = <<>>
        /\ taken = <<>>
        /\ given = <<>>
        /\ modes = {}
        /\ ksh = NoShell
        /\ ret = NoRet

NextSerial ==
    \/ \E min \in 0..(Len(PORT_NOS) + 1), ok \in BOOLEAN : SerialOpenDev(1, min, ok)
    \/ FileClose(1)
    \/ UartReceive
    \/ \E n \in {1, 8} : SerialRead(1, n)
    \/ \E src \in SerialSources : SerialWrite(1, src)
    \/ \E fl \in SerialFlags : SerialIoctl(1, fl)

SpecSerial == InitSerial /\ [][NextSerial]_vars

\* The booted kernel with input to come on serial 1, and positional reads
\* and writes on one file opened on each kind of driver in turn.
InitPio == Booted(InitrdSbs, <<0>>, <<97, CH_CR, 98>>)

NextPio ==
    \/ SerialOpenDev(1, 1, TRUE)
    \/ TtyOpenDev(1, 1, TRUE)
    \/ FileOpenDev(1, MAKEDEV(MAJ_RAMDISK, 2))
    \/ FileOpenPath(1, S_ROOT, S_BINHELLO)
    \/ FileClose(1)
    \/ UartReceive
    \/ \E off \in {0, 4} : FileLseek(1, off, SEEK_SET)
    \/ \E n \in {2, 8}, off \in PreadOffsets : FilePread(1, n, off)
    \/ \E off \in {-1, 7} : FilePwrite(1, 2, off)
    \/ \E off \in {-1, 7} : SerialPread(1, 2, off)
    \/ \E off \in {-1, 7} : SerialPwrite(1, <<97, CH_NL>>, off)
    \/ \E off \in {-1, 7} : TtyPread(1, 2, off)
    \/ \E off \in {-1, 7} : TtyPwrite(1, <<97, CH_NL>>, off)

SpecPio == InitPio /\ [][NextPio]_vars

\* SpecPool: five callers' files on the root filesystem, mounted on the
\* initrd or on a damaged one; more files than there are contexts.  A caller
\* opens on its lowest file that is not open, and closes any.
PoolHandles == 1..(MAX_CPIO_OPEN + 1)
PoolPaths == {S_BINHELLO, S_NOFILE}

InitPool == \E rds \in {BootRamdisks, DamagedRamdisks} :
                BootedOn(rds, InitrdSbs, <<0>>, PoolHandles)

NextPool ==
    \/ \E h \in PoolHandles, p \in PoolPaths :
            /\ \A g \in PoolHandles \ opened : h <= g
            /\ FileOpenPath(h, S_ROOT, p)
    \/ \E h \in PoolHandles : FileClose(h)
    \/ \E p \in PoolPaths : FileStat(S_ROOT, p, OldFstat)

SpecPool == InitPool /\ [][NextPool]_vars

-----------------------------------------------------------------------------
(* SpecPath: path_join on every pair of short strings of '/' and 'a', into  *)
(* a buffer of PATH_MAX bytes and into one of four                          *)

MaxPathA == 3     \* length of the longest first argument
MaxPathB == 2     \* length of the longest second argument
PathAlphabet == {47, 97}
SmallBuf == 4

InitPath ==
    \E dstsz \in {SmallBuf, PATH_MAX},
       a \in SeqsUpTo(PathAlphabet, MaxPathA), b \in SeqsUpTo(PathAlphabet, MaxPathB) :
        BootedWith(BootRamdisks, NoSbs, <<>>, Handles,
                   [op |-> "path_join_call", res |-> 0, hang |-> FALSE, dstsz |-> dstsz,
                    a |-> a, b |-> b])

NextPath == PathJoin

SpecPath == InitPath /\ [][NextPath]_vars

-----------------------------------------------------------------------------
(* SpecShell: the shell started without a root filesystem (mount_initrd     *)
(* failed), with lines of one word, of no word, of sixteen and of seventeen *)
(* words, and end-of-file, arriving byte by byte                            *)

S_A == <<97, CH_NL>>                                             \* "a\n"
RECURSIVE Words(_)
Words(n) == IF n = 0 THEN <<>> ELSE <<97, 32>> \o Words(n - 1)   \* "a a a ... "

ShellScripts ==
    {S_A \o <<CH_NL, 32, CH_NL>> \o S_A \o <<CTRL_D>>,
     Words(SH_ARGVSZ - 1) \o S_A,
     Words(SH_ARGVSZ) \o S_A \o S_A}

MaxRx == 4        \* bytes the UART holds at most before the shell's next read

InitShell == \E w \in ShellScripts : Booted(NoSbs, <<>>, w)

NextShell ==
    \/ \E ok \in BOOLEAN : TtyOpenDev(ShellFile, 1, ok)
    \/ KshellInitTty
    \/ Len(uart_rx) < MaxRx /\ UartReceive
    \/ KshellRun

SpecShell == InitShell /\ [][NextShell]_vars

-----------------------------------------------------------------------------
(* Properties of the mount list and the path router (SpecMount)             *)

MountPathAt(k) == superblocks[vfs_mount_list[k]].s_mountpath

IsPrefix(p, s) == Len(p) <= Len(s) /\ SubSeq(s, 1, Len(p)) = p

S_SLBINHELLO == S_SLBIN \o <<47>> \o S_HELLO                     \* "/bin/hello"

\* C1: after any sequence of fs_mountdev calls the mount list is sorted
\* ascending by mountpath: a mount earlier in the list never has the
\* greater mountpath.
C1_MountListSorted ==
    \A i, j \in 1..Len(vfs_mount_list) :
        i < j => strcmp(MountPathAt(i), MountPathAt(j)) <= 0

\* C2: file_open_path routes an absolute path that some mount covers to the
\* mount whose mountpath is its longest prefix; with "/" and "/bin" both
\* mounted, "/bin/hello" goes to the "/bin" mount with relpath "hello".
C2_RoutesLongestPrefix ==
    ret.op = "file_open_path" =>
        LET covering == {k \in 1..Len(vfs_mount_list) : IsPrefix(MountPathAt(k), ret.abspath)}
        IN  covering # {} =>
                /\ ret.sb >= 0
                /\ \A k \in covering :
                       Len(MountPathAt(k)) <= Len(superblocks[ret.sb].s_mountpath)
                /\ (ret.abspath = S_SLBINHELLO
                    /\ \E k \in covering : MountPathAt(k) = S_SLBIN)
                       => /\ superblocks[ret.sb].s_mountpath = S_SLBIN
                          /\ ret.relpath = S_HELLO

-----------------------------------------------------------------------------
(* Properties of the driver registries (SpecReg)                            *)

\* C4: chrdev_register and fs_register return 0 for a free in-range id and
\* for the pointer already registered, and busy for another pointer under
\* an occupied id, whose table entry stays as it was.
C4_RegisterContract ==
    (ret.op \in {"chrdev_register", "fs_register"} /\ ret.inrange) =>
        LET now == IF ret.op = "chrdev_register" THEN chrdev_drivers[ret.id]
                   ELSE fs_drivers[ret.id]
        IN  /\ ret.old = "NULL" => (ret.res = 0 /\ now = ret.ops)
            /\ ret.old = ret.ops => (ret.res = 0 /\ now = ret.ops)
            /\ ret.old \notin {"NULL", ret.ops} => (ret.res = -EBUSY /\ now = ret.old)

-----------------------------------------------------------------------------
(* Properties of open files (SpecFile)                                      *)

IsCpio(h) == h \in opened /\ files[h].f_op = "cpio_file"

\* C3: two CPIO files open at once have contexts of their own, and a
\* file_read, file_pread, file_lseek or file_readdir on one of them leaves
\* the other's file object (its position with it) and its context, which
\* together with the archive decide what its next calls return, unchanged.
C3_HandlesIndependent ==
    [][\A a, b \in Handles :
          (a # b /\ IsCpio(a) /\ IsCpio(b)) =>
              /\ files[a].f_driver_data # files[b].f_driver_data
              /\ (ret'.op \in {"file_read", "file_pread", "file_lseek", "file_readdir"}
                  /\ ret'.h = a)
                     => /\ files'[b] = files[b]
                        /\ cfdatas'[files[b].f_driver_data] = cfdatas[files[b].f_driver_data]
                        /\ ramdisks' = ramdisks]_vars

\* Both files are open on the archive, the second has read some of its
\* bytes, and the first has just read some too.
C3_Witness ==
    /\ IsCpio(1) /\ IsCpio(2)
    /\ files[2].f_pos > 0
    /\ ret.op = "file_read" /\ ret.h = 1 /\ ret.res > 0

\* C8: file_lseek(f, 0, SEEK_CUR) leaves the position as it was and returns it.
C8_SeekCurReturnsPos ==
    (ret.op = "file_lseek" /\ ret.whence = SEEK_CUR /\ ret.off = 0) =>
        /\ files[ret.h].f_pos = ret.pos0
        /\ ret.res = ret.pos0

\* C9: the position of an open file is never negative.
C9_PosNonNegative == \A h \in opened : files[h].f_pos >= 0

\* C10: file_lseek with a whence that is none of SEEK_SET, SEEK_CUR and
\* SEEK_END returns invalid and changes nothing: not the position, not any
\* other field of any file, not any driver state.
C10_BadWhence ==
    [][(ret'.op = "file_lseek" /\ ret'.whence \notin {SEEK_SET, SEEK_CUR, SEEK_END}) =>
          /\ ret'.res = -EINVAL
          /\ UNCHANGED <<ksh, regVars, mntVars, ramdisks, fileVars, ttyVars>>]_vars

\* An unknown whence was refused on a file whose position is neither zero
\* nor the offset asked for.
C10_Witness ==
    /\ ret.op = "file_lseek"
    /\ ret.whence \notin {SEEK_SET, SEEK_CUR, SEEK_END}
    /\ ret.res = -EINVAL
    /\ files[ret.h].f_pos # 0
    /\ files[ret.h].f_pos # ret.off

-----------------------------------------------------------------------------
(* Properties of the TTY line discipline (SpecTTY)                          *)

Tty1 == ttys[1]

NoNewlineBefore(s, n) == \A i \in 1..(n - 1) : s[i] # CH_NL

\* Every byte taken so far was taken with COOKED set.
CookedOnly == \A m \in modes : HasFlag(m, TTY_COOKED)

\* Every byte taken so far was taken with exactly ECHO and COOKED set.
EchoCookedOnly == modes \subseteq {TTY_ECHO + TTY_COOKED}

\* What a cooked terminal owes its readers for the input bytes: the lines
\* ended so far, then the line being edited.
RECURSIVE CookFrom(_, _, _, _)
CookFrom(bytes, i, done, cur) ==
    IF i > Len(bytes) THEN done \o cur
    ELSE IF bytes[i] = CH_NL THEN CookFrom(bytes, i + 1, done \o cur \o <<CH_NL>>, <<>>)
    ELSE IF bytes[i] = CTRL_D THEN CookFrom(bytes, i + 1, done \o cur, <<>>)
    ELSE IF bytes[i] \in {CH_BS, CH_DEL}
        THEN CookFrom(bytes, i + 1, done, SubSeq(cur, 1, Len(cur) - 1))
    ELSE IF bytes[i] = CTRL_U THEN CookFrom(bytes, i + 1, done, <<>>)
    ELSE CookFrom(bytes, i + 1, done, Append(cur, bytes[i]))

Cook(bytes) == CookFrom(bytes, 1, <<>>, <<>>)

\* The echo owed for input of ordinary bytes, backspaces and newlines; n is
\* the length of the line being edited.
RECURSIVE EchoFrom(_, _, _, _)
EchoFrom(bytes, i, n, out) ==
    IF i > Len(bytes) THEN out
    ELSE IF bytes[i] = CH_NL THEN EchoFrom(bytes, i + 1, 0, Append(out, CH_NL))
    ELSE IF bytes[i] \in {CH_BS, CH_DEL}
        THEN IF n > 0 THEN EchoFrom(bytes, i + 1, n - 1, out \o <<CH_BS, 32, CH_BS>>)
             ELSE EchoFrom(bytes, i + 1, 0, out)
    ELSE EchoFrom(bytes, i + 1, n + 1, Append(out, bytes[i]))

EchoOf(bytes) == EchoFrom(bytes, 1, 0, <<>>)

PlainInput(bytes) == \A i \in 1..Len(bytes) : bytes[i] \notin {CTRL_D, CTRL_U}

\* C5: in cooked mode no byte is lost or reordered: what the reads have
\* returned, followed by what is buffered, is the edited input.  The buffer
\* never holds more than one line.  A read that returns bytes returns the
\* first min(count, length) bytes of the buffered line and never goes past
\* its '\n'; a read never answers try-again while a complete line is buffered.
C5_CookedLines ==
    CookedOnly =>
        /\ given \o Tty1.ibuf = Cook(taken)
        /\ NoNewlineBefore(Tty1.ibuf, Len(Tty1.ibuf))
        /\ (ret.op = "tty_read" /\ HasFlag(ret.flags, TTY_COOKED)) =>
               LET line == ret.data \o Tty1.ibuf
               IN  /\ ret.res = -EAGAIN => NoNewlineBefore(line, Len(line) + 1)
                   /\ ret.res > 0 =>
                          /\ Len(ret.data) = ret.res
                          /\ ret.res = MIN(ret.count, Len(line))
                          /\ NoNewlineBefore(line, Len(line))

\* A read with a small count returned the head of a line, and the next
\* read, taking no input, returned the rest up to and including the '\n',
\* while bytes that arrived after the '\n' wait in the UART.
C5_Witness ==
    /\ CookedOnly
    /\ ret.op = "tty_read" /\ HasFlag(ret.flags, TTY_COOKED)
    /\ ret.prev > 0 /\ ret.res > 0 /\ ret.took = <<>>
    /\ ret.data[Len(ret.data)] = CH_NL
    /\ uart_rx # <<>>

\* C6: with COOKED set, a read that finds the buffer empty and takes ^D
\* returns 0, takes nothing after the ^D, and leaves ibuf_eof and ibuf_eol
\* clear; the read after a read that returned 0, with no input to take,
\* returns try-again and leaves both clear as well.
C6_EofOnce ==
    (ret.op = "tty_read" /\ HasFlag(ret.flags, TTY_COOKED)) =>
        /\ (ret.len0 = 0 /\ ret.took # <<>> /\ ret.took[1] = CTRL_D) =>
               /\ ret.res = 0
               /\ Len(ret.took) = 1
               /\ ~Tty1.ibuf_eof /\ ~Tty1.ibuf_eol
        /\ (ret.prev = 0 /\ ret.took = <<>>) =>
               /\ ret.res = -EAGAIN
               /\ ~Tty1.ibuf_eof /\ ~Tty1.ibuf_eol

\* ^D was the last byte taken, the read that took it returned 0, and the
\* read after it returned try-again.
C6_Witness ==
    /\ ret.op = "tty_read" /\ HasFlag(ret.flags, TTY_COOKED)
    /\ taken # <<>> /\ taken[Len(taken)] = CTRL_D
    /\ ret.prev = 0 /\ ret.took = <<>> /\ ret.res = -EAGAIN

S_EDIT_ECHO == <<97, 98, CH_BS, 32, CH_BS, CH_BS, 32, CH_BS, 99, 100, CH_NL>>

\* C7: with ECHO|COOKED, for input of ordinary bytes, backspaces and
\* newlines, the bytes written to the port are the bytes themselves with
\* "\b \b" for every backspace on a non-empty line, and the readers get the
\* edited lines; the input "ab\b\bcd\n" is echoed as "ab\b \b\b \bcd\n" and
\* read as the single line "cd\n".
C7_BackspaceEcho ==
    (EchoCookedOnly /\ PlainInput(taken)) =>
        /\ port_log = EchoOf(taken)
        /\ given \o Tty1.ibuf = Cook(taken)
        /\ taken = S_EDIT =>
               /\ port_log = S_EDIT_ECHO
               /\ given \o Tty1.ibuf = <<99, 100, CH_NL>>
               /\ (ret.op = "tty_read" /\ ret.res > 0 /\ ret.count >= 3 /\ given = ret.data)
                      => ret.data = <<99, 100, CH_NL>>

\* The whole of "ab\b\bcd\n" was taken with ECHO|COOKED and a read returned "cd\n".
C7_Witness ==
    /\ EchoCookedOnly
    /\ taken = S_EDIT
    /\ port_log = S_EDIT_ECHO
    /\ ret.op = "tty_read" /\ ret.data = <<99, 100, CH_NL>>
-----------------------------------------------------------------------------
(* Properties of reading archive members and ramdisks (SpecRead)            *)

\* The context and the archive image behind the open CPIO file h.
CfdOf(h) == cfdatas[files[h].f_driver_data]
ArchiveOf(h) == Disks[ramdisks[CfdOf(h).af.f_driver_data].addr]

\* Where the data of the member h was opened on starts in the archive: after
\* its header and its pathname with the NUL, padded to a multiple of four.
DataStart(h) ==
    ALIGN_UP(CfdOf(h).h.hoff + NEWC_HSIZE + Len(CfdOf(h).h.pathname) + 1, 4)

\* The bytes of the member: f_size bytes from DataStart.
MemberData(h) == SubSeq(ArchiveOf(h), DataStart(h) + 1, DataStart(h) + files[h].f_size)

\* The bytes [from, from + n) of a byte sequence.
Bytes(s, from, n) == SubSeq(s, from + 1, from + n)

\* C11: a read of f_size bytes from position 0 of a freshly decoded member
\* returns f_size bytes, and they are the bytes of the archive right after
\* the member's header, pathname and padding; the padding and the magic of
\* the next header follow them.  For the two files of the images these are
\* the bytes the archives were packed with.
C11_ReadWholeMember ==
    (ret.op = "file_read" /\ IsCpio(ret.h) /\ ret.pos0 = 0
     /\ ret.count = files[ret.h].f_size) =>
        /\ ret.res = files[ret.h].f_size
        /\ ret.data = MemberData(ret.h)
        /\ Bytes(ArchiveOf(ret.h), ALIGN_UP(DataStart(ret.h) + files[ret.h].f_size, 4), 6)
               = NEWC_MAGIC
        /\ CfdOf(ret.h).h.pathname = S_BINHELLO => ret.data = HelloData
        /\ CfdOf(ret.h).h.pathname = S_HELLO => ret.data = ToolData

\* The whole of "bin/hello" of the initrd was read in one call.
C11_Witness ==
    /\ ret.op = "file_read" /\ IsCpio(ret.h) /\ ret.pos0 = 0
    /\ ret.count = 6 /\ files[ret.h].f_size = 6
    /\ ret.data = HelloData

\* The offset a file_read or file_pread just made was made at, and the
\* greater and the smaller of two integers.
ReadOff == IF ret.op = "file_read" THEN ret.pos0 ELSE ret.off
Max2(a, b) == IF a >= b THEN a ELSE b
Min2(a, b) == IF a <= b THEN a ELSE b

\* C12: a read of a CPIO file, at the file's position or at the offset of
\* file_pread, returns at most max(0, f_size - off) bytes, and they are the
\* bytes of the member's own data from off on.
C12_ReadWithinFile ==
    (ret.op \in {"file_read", "file_pread"} /\ IsCpio(ret.h) /\ ret.count > 0) =>
        /\ ret.res >= 0
        /\ ret.res <= Max2(0, files[ret.h].f_size - ReadOff)
        /\ Len(ret.data) = ret.res
        /\ \A i \in 1..ret.res :
               /\ ReadOff + i \in 1..files[ret.h].f_size
               /\ ret.data[i] = MemberData(ret.h)[ReadOff + i]

\* C13: consecutive file_read calls on an open CPIO regular file return
\* consecutive content: a call that follows a call that returned n bytes
\* starts n bytes further, returns the bytes of the archive from there, and
\* leaves f_pos behind the last byte it returned; when the first call began
\* inside the file the bytes are the member's own and as many as were asked
\* for, up to the end of the file.
C13_ConsecutiveReads ==
    [][(/\ ret.op = "file_read" /\ ret'.op = "file_read" /\ ret'.h = ret.h
        /\ IsCpio(ret.h) /\ files[ret.h].f_type = DT_REG
        /\ ret.res >= 0) =>
           LET h == ret.h
               size == files[h].f_size
           IN  /\ ret'.pos0 = ret.pos0 + ret.res
               /\ ret'.res >= 0
               /\ ret'.data = Bytes(ArchiveOf(h), DataStart(h) + ret'.pos0, ret'.res)
               /\ files'[h].f_pos = ret'.pos0 + ret'.res
               /\ (ret.pos0 \in 0..size) =>
                      /\ ret'.res = Min2(ret'.count, size - ret'.pos0)
                      /\ ret'.data = Bytes(MemberData(h), ret'.pos0, ret'.res)]_vars

\* Two reads of three bytes of "bin/hello": the second began at byte 3 and
\* returned "lo\n", and the position is 6.
C13_Witness ==
    /\ ret.op = "file_read" /\ IsCpio(ret.h) /\ files[ret.h].f_size = 6
    /\ ret.pos0 = 3 /\ ret.count = 3 /\ ret.res = 3
    /\ ret.data = <<108, 111, 10>>
    /\ files[ret.h].f_pos = 6

IsRamdisk(h) == h \in opened /\ files[h].f_op = "ramdisk"

\* C15: a read of count bytes of a ramdisk at position pos: at pos = size
\* and beyond it returns 0 and copies nothing; a pos below zero is raised to
\* zero and the read starts at the first byte; otherwise min(count, size -
\* pos) bytes are copied, the disk's bytes from pos on, and the position
\* moves on by the number returned.  file_pread reads the same bytes at its
\* offset.
C15_RamdiskRead ==
    (ret.op \in {"file_read", "file_pread"} /\ IsRamdisk(ret.h) /\ ret.count > 0) =>
        LET size  == ramdisks[files[ret.h].f_driver_data].rd_size
            disk  == Disks[ramdisks[files[ret.h].f_driver_data].addr]
            start == Max2(ReadOff, 0)
        IN  /\ files[ret.h].f_size = size
            /\ Len(disk) = size
            /\ ReadOff >= size => (ret.res = 0 /\ ret.data = <<>>)
            /\ ReadOff < size =>
                   /\ ret.res = Min2(ret.count, size - start)
                   /\ ret.data = Bytes(disk, start, ret.res)
            /\ ret.op = "file_read" => files[ret.h].f_pos = start + ret.res

\* Three bytes were asked for two bytes before the end of a ramdisk: two
\* came back and the position is the size.
C15_Witness ==
    /\ ret.op = "file_read" /\ IsRamdisk(ret.h)
    /\ ret.pos0 = files[ret.h].f_size - 2 /\ ret.count = 3
    /\ ret.res = 2 /\ Len(ret.data) = 2
    /\ files[ret.h].f_pos = files[ret.h].f_size

\* What the archives were packed from, in archive order: the name, the kind
\* and the data of each member before the end marker.
Packed ==
    << <<[name |-> S_DOT, type |-> DT_DIR, data |-> <<>>],
         [name |-> S_BIN, type |-> DT_DIR, data |-> <<>>],
         [name |-> S_BINHELLO, type |-> DT_REG, data |-> HelloData],
         [name |-> S_SBIN, type |-> DT_DIR, data |-> <<>>]>>,
       <<[name |-> S_HELLO, type |-> DT_REG, data |-> ToolData],
         [name |-> S_DOT, type |-> DT_DIR, data |-> <<>>]>>,
       <<[name |-> S_HELLO, type |-> DT_REG, data |-> ToolData]>>,
       <<[name |-> S_DOT, type |-> DT_DIR, data |-> <<>>],
         [name |-> S_BINHELLO, type |-> DT_REG, data |-> HelloData]>>,
       << >> >>

\* The archive offset right behind member k and its data; the end marker
\* counts as the member after the last.
RECURSIVE EntryEnd(_, _)
EntryEnd(ms, k) ==
    IF k = 0 THEN 0
    ELSE EntryEnd(ms, k - 1)
         + (IF k > Len(ms) THEN ALIGN_UP(NEWC_HSIZE + Len(S_TRAILER) + 1, 4)
            ELSE ALIGN_UP(NEWC_HSIZE + Len(ms[k].name) + 1, 4)
                 + ALIGN_UP(Len(ms[k].data), 4))

StartsWith(name, prefix) ==
    Len(name) >= Len(prefix) /\ SubSeq(name, 1, Len(prefix)) = prefix

\* name without prefix and without the '/' that follows it.
MinusPrefix(name, prefix) ==
    LET r == SubSeq(name, Len(prefix) + 1, Len(name))
    IN  IF r # <<>> /\ r[1] = 47 THEN Tail(r) ELSE r

\* The member the next call of readdir is due to yield when k members have
\* been passed: the first one after k whose name starts with prefix, or the
\* end marker.
DueEntry(ms, k, prefix) ==
    MinOf({j \in (k + 1)..(Len(ms) + 1) : j = Len(ms) + 1 \/ StartsWith(ms[j].name, prefix)})

\* C19: an open CPIO directory's cursor stands behind the directory's own
\* header, and each file_readdir on it yields, with 1, the next member in
\* archive order whose pathname starts with the directory's ("." being the
\* empty prefix), d_name being the pathname minus that prefix, and moves the
\* cursor behind that member; it returns 0 when it meets the end marker.
C19_ReaddirInOrder ==
    [][LET h == ret'.h
       IN  /\ (ret'.op = "file_open_path" /\ ret'.res = 0 /\ ~ret'.hang
               /\ files'[h].f_type = DT_DIR) =>
                  LET cfd == cfdatas'[files'[h].f_driver_data]
                      ms  == Packed[ramdisks[cfd.af.f_driver_data].addr]
                      own == IF ret'.relpath = <<>> THEN S_DOT ELSE ret'.relpath
                  IN  /\ cfd.h.pathname = own
                      /\ \E k \in 1..Len(ms) :
                            ms[k].name = own /\ cfd.af.f_pos = EntryEnd(ms, k)
           /\ (ret'.op = "file_readdir" /\ IsCpio(h) /\ files[h].f_type = DT_DIR
               /\ CfdOf(h).af.f_pos < Len(ArchiveOf(h))) =>
                  LET ms     == Packed[ramdisks[CfdOf(h).af.f_driver_data].addr]
                      own    == CfdOf(h).h.pathname
                      prefix == IF own = S_DOT THEN <<>> ELSE own
                      cursor == cfdatas'[files[h].f_driver_data].af.f_pos
                  IN  \E k \in 1..Len(ms) :
                         /\ CfdOf(h).af.f_pos = EntryEnd(ms, k)
                         /\ LET j == DueEntry(ms, k, prefix)
                            IN  /\ cursor = EntryEnd(ms, j)
                                /\ ~ret'.hang
                                /\ IF j > Len(ms) THEN ret'.res = 0
                                   ELSE /\ ret'.res = 1
                                        /\ ret'.d_name = MinusPrefix(ms[j].name, prefix)
                                        /\ ret'.d_type = ms[j].type]_vars

\* The third file_readdir on "/" of the initrd: after "bin" and "bin/hello"
\* it yields "sbin", and the cursor stands before the end marker.
C19_Witness ==
    /\ ret.op = "file_readdir" /\ IsCpio(ret.h) /\ ret.res = 1
    /\ CfdOf(ret.h).h.pathname = S_DOT
    /\ ret.d_name = S_SBIN /\ ret.d_type = DT_DIR
    /\ CfdOf(ret.h).af.f_pos = EntryEnd(Packed[1], 4)

\* C20 as stated: file_readdir on any open file that is no directory fails
\* with not-a-directory and moves no cursor.
C20_NotDirFails ==
    [][(ret'.op = "file_readdir" /\ ret'.h \in opened
        /\ files[ret'.h].f_type # DT_DIR) =>
           /\ ret'.res = -ENOTDIR
           /\ files' = files /\ cfdatas' = cfdatas]_vars

\* C20: file_readdir on an open file that is no directory and whose driver
\* supplies readdir fails with not-a-directory, and on one whose driver
\* supplies no readdir with invalid; neither calls the driver or moves a
\* position or an archive cursor.  On a directory it returns 1 with an
\* entry, 0 at the end of the directory, or a negative error.
C20_ReaddirKinds ==
    [][(ret'.op = "file_readdir" /\ ret'.h \in opened) =>
           LET f == files[ret'.h]
           IN  /\ ~HasOp(f, "readdir") =>
                      (ret'.res = -EINVAL /\ files' = files /\ cfdatas' = cfdatas)
               /\ (HasOp(f, "readdir") /\ f.f_type # DT_DIR) =>
                      (ret'.res = -ENOTDIR /\ files' = files /\ cfdatas' = cfdatas)
               /\ (HasOp(f, "readdir") /\ f.f_type = DT_DIR) =>
                      /\ ~ret'.hang
                      /\ ret'.res <= 1
                      /\ ret'.res = 1 <=> ret'.d_type # DT_UNKNOWN]_vars

\* file_readdir on the open regular file "bin/hello" was refused.
C20_Witness ==
    /\ ret.op = "file_readdir" /\ IsCpio(ret.h)
    /\ files[ret.h].f_type = DT_REG
    /\ ret.res = -ENOTDIR

-----------------------------------------------------------------------------
(* Properties of the serial driver (SpecSerial)                             *)

\* The bytes src is due to become on the line: with crnl each '\n' becomes
\* '\r' '\n', every other byte stays.
RECURSIVE Emitted(_, _)
Emitted(src, crnl) ==
    IF src = <<>> THEN <<>>
    ELSE (IF crnl /\ Head(src) = 10 THEN <<13, 10>> ELSE <<Head(src)>>)
         \o Emitted(Tail(src), crnl)

\* C16: a write on a serial unit emits every byte of the source in order,
\* each '\n' as '\r' '\n' when OCRNL is set and as itself when it is clear,
\* every other byte unchanged.
C16_WriteFiltered ==
    ret.op = "serial_write" =>
        uart_tx = ret.tx0 \o Emitted(ret.src, HasFlag(ret.flags, SRL_OCRNL))

\* C17: a serial read of count >= 1 bytes returns try-again when no byte is
\* ready at its first poll; otherwise it returns the n bytes that were
\* ready, 1 <= n <= count, in order, a '\r' among them turned into '\n' iff
\* ICRNL is set.
C17_ReadNonBlocking ==
    (ret.op = "serial_read" /\ ret.count >= 1) =>
        /\ ~ret.hang
        /\ ret.rx0 = <<>> => (ret.res = -EAGAIN /\ ret.data = <<>>)
        /\ ret.rx0 # <<>> =>
               /\ ret.res = Min2(ret.count, Len(ret.rx0))
               /\ 1 <= ret.res /\ ret.res <= ret.count
               /\ Len(ret.data) = ret.res
               /\ \A i \in 1..ret.res :
                      ret.data[i] = IF HasFlag(ret.flags, SRL_ICRNL) /\ ret.rx0[i] = 13
                                    THEN 10 ELSE ret.rx0[i]

\* "a\rb" was waiting and ICRNL was set: a read of 8 returned "a\nb".
C17_Witness ==
    /\ ret.op = "serial_read" /\ ret.count = 8
    /\ HasFlag(ret.flags, SRL_ICRNL)
    /\ ret.rx0 = <<97, 13, 98>>
    /\ ret.res = 3 /\ ret.data = <<97, 10, 98>>

\* C18: open_dev of a serial minor outside 1..2 fails with no-device and
\* touches no unit; the first open of a unit runs the loopback test, fails
\* with I/O error when the byte read back differs and succeeds otherwise;
\* an open of a unit that is initialised already succeeds whatever the test
\* would give, and leaves the unit, its flags with it, as it was.
C18_OpenDev ==
    [][(ret'.op = "serial_open_dev" /\ ret' # ret) =>
           LET min == ret'.min
           IN  IF min < 1 \/ min > 2
                   THEN ret'.res = -ENODEV /\ serials' = serials /\ opened' = opened
               ELSE /\ serials[min].port = 0 =>
                          /\ ret'.res = IF ret'.loop_ok THEN 0 ELSE -EIO
                          /\ serials'[min].flags = serials[min].flags
                    /\ serials[min].port # 0 =>
                          (ret'.res = 0 /\ serials' = serials)
                    /\ ret'.res = 0 =>
                          /\ ret'.h \in opened'
                          /\ files'[ret'.h].f_driver_data = min
                          /\ serials'[min].port = PORT_NOS[min]
                    /\ \A m \in 1..2 : m # min => serials'[m] = serials[m]]_vars

\* Serial 1 was opened again after its flags had been set: the open
\* succeeded though the loopback test would have failed, and the flags stay.
C18_Witness ==
    /\ ret.op = "serial_open_dev" /\ ret.min = 1 /\ ~ret.loop_ok
    /\ ret.res = 0
    /\ serials[1].flags = SRL_OCRNL

-----------------------------------------------------------------------------
(* Properties of positional reads and writes (SpecPio)                      *)

\* C14: file_pread and file_pwrite leave the position of the file as it
\* was, on a ramdisk, a CPIO file, a serial port and a TTY, whatever the
\* offset they are given.
C14_PositionKept ==
    ret.op \in {"file_pread", "file_pwrite"} => files[ret.h].f_pos = ret.pos0

\* "bin/hello" stood at position 4 and was read at offset -1: bytes came
\* back and the position is still 4.
C14_Witness ==
    /\ ret.op = "file_pread" /\ IsCpio(ret.h)
    /\ ret.pos0 = 4 /\ ret.off = -1 /\ ret.res > 0
    /\ files[ret.h].f_pos = 4

-----------------------------------------------------------------------------
(* file_stat and the pool of CPIO contexts, under SpecPool *)

\* The members packed into the archive the root is mounted on.
RootPacked == Packed[ramdisks[0].addr]

\* The members of that archive named name.
Named(name) == {k \in 1..Len(RootPacked) : RootPacked[k].name = name}

\* C21: file_stat of a path of the archive, when a context is free for the
\* open it makes, returns 0 with the kind its header's mode says (REG for a
\* regular file) and the size of its filesize field, the same metadata a file
\* open on that path holds; a failing file_stat leaves the caller's struct
\* fstat as it was, and for a path that is not in an intact archive the
\* failure is -ENOENT.
C21_StatSnapshot ==
    (ret.op = "file_stat" /\ ~ret.hang) =>
        /\ (Named(ret.relpath) # {} /\ FreeCfdatas(cfdatas) # {}) =>
              /\ ret.res = 0
              /\ \A k \in Named(ret.relpath) :
                    /\ ret.fstat.f_type = RootPacked[k].type
                    /\ ret.fstat.f_size = Len(RootPacked[k].data)
              /\ \A h \in opened :
                    (IsCpio(h) /\ CfdOf(h).h.pathname = ret.relpath) =>
                        FstatOf(files[h]) = ret.fstat
        /\ Named(ret.relpath) = {} =>
              /\ ret.res < 0
              /\ (ramdisks = BootRamdisks /\ FreeCfdatas(cfdatas) # {}) =>
                    ret.res = -ENOENT
        /\ ret.res < 0 => ret.fstat = ret.old

C21_Witness ==
    /\ ret.op = "file_stat" /\ ret.res = 0 /\ ret.relpath = S_BINHELLO
    /\ ret.fstat.f_type = DT_REG /\ ret.fstat.f_size = Len(HelloData)
    /\ ret.fstat # ret.old
    /\ \E h \in opened : IsCpio(h) /\ CfdOf(h).h.pathname = S_BINHELLO

\* The contexts in use, and the CPIO files open.
UsedCfdatas == DOMAIN cfdatas \ FreeCfdatas(cfdatas)
OpenCpio == {h \in opened : files[h].f_op = "cpio_file"}

\* C22: the contexts in use are exactly those of the CPIO files open, one
\* each, so there are as many of the one as of the other (after file_open_path,
\* file_close and file_stat alike); only with MAX_CPIO_OPEN files open does an
\* open or a stat fail for lack of a context, and with every file closed all
\* contexts are free.
C22_ContextsMatchOpenFiles ==
    /\ UsedCfdatas = {files[h].f_driver_data : h \in OpenCpio}
    /\ \A g, h \in OpenCpio : files[g].f_driver_data = files[h].f_driver_data => g = h
    /\ Cardinality(UsedCfdatas) = Cardinality(OpenCpio)
    /\ (ret.op \in {"file_open_path", "file_stat"} /\ ret.res = -ENOMEM) =>
          Cardinality(OpenCpio) = MAX_CPIO_OPEN
    /\ OpenCpio = {} => Cardinality(FreeCfdatas(cfdatas)) = MAX_CPIO_OPEN

\* Four files were opened, a stat succeeded, and the last of the files has
\* just been closed.
C22_Witness ==
    /\ ret.op = "file_close" /\ opened = {}
    /\ \A h \in 1..MAX_CPIO_OPEN : files[h].f_op = "cpio_file" /\ files[h].f_driver_data = h - 1
    /\ FreeCfdatas(cfdatas) = DOMAIN cfdatas

\* C23: a file_open_path on the CPIO filesystem that fails (no context free,
\* path not found, bytes that are no header) leaves the set of contexts in
\* use as it was before the call.
C23_FailedOpenKeepsNoContext ==
    [][(ret'.op = "file_open_path" /\ ret'.res < 0 /\ ~ret'.hang) =>
          UsedCfdatas' = UsedCfdatas]_vars

\* A failed open that had taken a context: the walk for the path ran into
\* bytes that are no header, while two other files were open.
C23_Witness ==
    /\ ret.op = "file_open_path" /\ ret.res = -EINVAL
    /\ Cardinality(OpenCpio) = 2
    /\ Cardinality(UsedCfdatas) = 2
    /\ cfdatas[2].af.f_op = "NULL" /\ cfdatas[2].af.f_pos > 0

-----------------------------------------------------------------------------
(* Mounting, under SpecMountAny *)

\* The sequence number, from 0, of the member named name among ms.
SeqNoOf(ms, name) == MinOf({k \in 1..Len(ms) : ms[k].name = name}) - 1

HasMember(ms, name) == \E k \in 1..Len(ms) : ms[k].name = name

\* C24: an fs_mountdev that fails returns a negative error (-ENOMEM with no
\* superblock free, -ENODEV for a filesystem type not registered or a device
\* that cannot be opened, -EINVAL for bytes that are no header, -ENOENT
\* for an archive without "."), leaves the mount list as it was and the same
\* superblocks free; one that succeeds returns 0, takes exactly one free
\* superblock, puts it on the mount list, and its s_root_ino is the
\* sequence number of the "." header.
C24_MountAllOrNothing ==
    [][(ret'.op = "fs_mountdev" /\ ~ret'.hang) =>
          LET dev  == ret'.blockdev
              rd   == ramdisks[MINOR(dev)]
              nosb == FreeSbs(superblocks) = {}
              nofs == fs_drivers[ret'.fstypeid] = "NULL"
              nodev == rd.addr = 0
              ms   == Packed[rd.addr]
          IN  IF ret'.res < 0
                  THEN /\ vfs_mount_list' = vfs_mount_list
                       /\ FreeSbs(superblocks') = FreeSbs(superblocks)
                       /\ ret'.res = IF nosb THEN -ENOMEM
                                     ELSE IF nofs \/ nodev THEN -ENODEV
                                     ELSE IF rd.addr = 5 THEN -EINVAL
                                     ELSE -ENOENT
                       /\ nosb \/ nofs \/ nodev \/ ~HasMember(ms, S_DOT)
              ELSE /\ ret'.res = 0
                   /\ ~nosb /\ ~nofs /\ ~nodev /\ HasMember(ms, S_DOT)
                   /\ \E i \in FreeSbs(superblocks) :
                         /\ FreeSbs(superblocks') = FreeSbs(superblocks) \ {i}
                         /\ \A j \in DOMAIN superblocks \ {i} :
                               superblocks'[j] = superblocks[j]
                         /\ vfs_mount_list' = Append(vfs_mount_list, i)
                         /\ superblocks'[i].s_bdev = dev
                         /\ superblocks'[i].s_root_ino = SeqNoOf(ms, S_DOT)]_vars

\* The first mount, of the archive whose "." is its second header, has
\* succeeded.
C24_Witness ==
    /\ ret.op = "fs_mountdev" /\ ret.res = 0
    /\ ramdisks = BootRamdisks
    /\ \E i \in DOMAIN superblocks :
          /\ superblocks[i].s_op = "cpiofs" /\ superblocks[i].s_root_ino = 1
          /\ vfs_mount_list = <<i>>
          /\ FreeSbs(superblocks) = DOMAIN superblocks \ {i}

-----------------------------------------------------------------------------
(* The entry checks of the file calls, under SpecEntry *)

\* The entry point each call asks the driver's table for.
EntryOf(op) ==
    IF op \in {"file_read", "file_pread", "serial_read"} THEN "read"
    ELSE IF op \in {"file_write", "file_pwrite", "serial_write"} THEN "write"
    ELSE IF op = "file_ioctl" THEN "ioctl"
    ELSE "readdir"

FileCalls == {"file_read", "file_pread", "serial_read", "file_write", "file_pwrite",
              "serial_write", "file_ioctl", "file_readdir"}

\* C25: file_read, file_pread, file_write, file_pwrite, file_ioctl and
\* file_readdir return -EINVAL and change nothing, neither the file nor
\* anything a driver keeps, when the pointer is null, the file has no table,
\* or its driver's table lacks the entry point asked for.
C25_MissingEntryRefused ==
    [][(ret'.op \in FileCalls
        /\ (NoTable(ret'.h) \/ ~HasOp(files[ret'.h], EntryOf(ret'.op)))) =>
          /\ ret'.res = -EINVAL
          /\ UNCHANGED <<ksh, regVars, mntVars, ramdisks, fileVars, ttyVars>>]_vars

\* file_readdir on a file open on a ramdisk, whose driver supplies no readdir.
C25_Witness ==
    /\ ret.op = "file_readdir" /\ ret.res = -EINVAL
    /\ ret.h \in opened /\ files[ret.h].f_op = "ramdisk"

\* What is left of abspath after the first n bytes, and after a '/' if that
\* comes next.
Remainder(abspath, n) ==
    LET rest == [i \in 1..(Len(abspath) - n) |-> abspath[n + i]]
    IN  IF rest # <<>> /\ rest[1] = 47 THEN Tail(rest) ELSE rest

\* C26: the path file_open_path hands to the filesystem it selected is the
\* joined absolute path without the mountpath at its start and without a '/'
\* that follows it; when the joined path is the mountpath that remainder is
\* empty, and the CPIO filesystem then opens its entry ".".
C26_RelpathPassed ==
    (ret.op = "file_open_path" /\ ret.sb >= 0) =>
        LET mp == superblocks[ret.sb].s_mountpath
        IN  /\ IsPrefix(mp, ret.abspath)
            /\ ret.relpath = Remainder(ret.abspath, Len(mp))
            /\ ret.abspath = mp =>
                  /\ ret.relpath = <<>>
                  /\ ret.res = 0
                  /\ files[ret.h].f_type = DT_DIR
                  /\ CfdOf(ret.h).h.pathname = S_DOT

\* "/bin" opened while "/bin" is a mountpath: the "." of that mount's archive,
\* its second entry.
C26_Witness ==
    /\ ret.op = "file_open_path" /\ ret.res = 0 /\ ret.sb >= 0
    /\ ret.abspath = S_SLBIN /\ superblocks[ret.sb].s_mountpath = S_SLBIN
    /\ ret.relpath = <<>>
    /\ CfdOf(ret.h).h.pathname = S_DOT
    /\ superblocks[ret.sb].s_root_ino = 1

-----------------------------------------------------------------------------
(* path_join, under SpecPath *)

IsSuffix(p, s) == Len(p) <= Len(s) /\ \A i \in 1..Len(p) : s[Len(s) - Len(p) + i] = p[i]

\* Whether path_join is to put a '/' between a and b.
SlashDue(a) == a # <<>> /\ a[Len(a)] # 47

\* The length of what path_join is to produce.
JoinedLen(a, b) ==
    IF b # <<>> /\ b[1] = 47 THEN Len(b)
    ELSE Len(a) + Len(b) + (IF SlashDue(a) THEN 1 ELSE 0)

\* C27: when the result fits the buffer, path_join(a, b) is b if b starts
\* with '/'; otherwise it starts with a, ends with b, and has between them
\* one '/' if a is not empty and does not end with '/', and nothing if not,
\* so that no two '/' meet where a and b were joined.
C27_PathJoin ==
    (ret.op = "path_join" /\ JoinedLen(ret.a, ret.b) < ret.dstsz) =>
        LET a == ret.a
            b == ret.b
            d == ret.dst
            n == Len(a)
        IN  IF b # <<>> /\ b[1] = 47 THEN d = b
            ELSE /\ IsPrefix(a, d)
                 /\ IsSuffix(b, d)
                 /\ Len(d) = JoinedLen(a, b)
                 /\ SlashDue(a) => d[n + 1] = 47
                 /\ \A i \in {n, n + 1} :
                       (1 <= i /\ i + 1 <= Len(d) /\ i <= JoinedLen(a, b) - Len(b)) =>
                           ~(d[i] = 47 /\ d[i + 1] = 47)

\* "a/" joined with "a": no '/' is added.
C27_Witness ==
    /\ ret.op = "path_join" /\ ret.a = <<97, 47>> /\ ret.b = <<97>>
    /\ ret.dst = <<97, 47, 97>> /\ ret.dstsz = SmallBuf

-----------------------------------------------------------------------------
(* The shell loop, under SpecShell *)

\* How many times the byte b occurs in str.
Count(str, b) == Cardinality({i \in 1..Len(str) : str[i] = b})

\* C28: a turn of the shell loop whose TTY read returns -EAGAIN, or returns
\* a command line (executed or empty), leaves the shell running; the shell
\* ends exactly in a turn whose TTY read returns 0 or an error other than
\* -EAGAIN; and a turn writes the prompt, once, exactly when it is the
\* first or follows a turn that read a command line.
C28_ShellLoop ==
    [][(ksh.pc = "run" /\ wire' = wire) =>
          /\ ret'.op = "kshell_read_exec"
          /\ (ret'.rd = -EAGAIN \/ ret'.rd > 0) => ksh'.pc = "run"
          /\ ksh'.pc = "done" <=> (ret'.rd = 0 \/ (ret'.rd < 0 /\ ret'.rd # -EAGAIN))
          /\ Count(port_log', 62) - Count(port_log, 62) =
                IF ret.op # "kshell_read_exec" \/ ret.rd > 0 THEN 1 ELSE 0]_vars

\* No byte of str ends a line: none is '\n' or ^D.
NoTerminator(str) == \A i \in 1..Len(str) : str[i] \notin {CH_NL, CTRL_D}

\* The line being edited, after the bytes str have come in on top of cur.
Edited(cur, str) == CookFrom(str, 1, <<>>, cur)

\* The step is a read of the TTY in cooked mode.
CookedRead ==
    /\ wire' = wire
    /\ ret'.op = "tty_read"
    /\ HasFlag(ret'.flags, TTY_COOKED)

\* C29: in cooked mode a read made while no line terminator has come in
\* (the line is not marked ended and the bytes the read takes hold neither
\* '\n' nor ^D) returns -EAGAIN and hands over no byte; the line stays in the
\* buffer, edited by the backspaces and ^U the read took, and is still not
\* marked ended.  So a read that hands over bytes was made after a '\n' or a
\* ^D came in.
C29_WaitsForLine ==
    [][CookedRead =>
          /\ (~Tty1.ibuf_eol /\ NoTerminator(ret'.took)) =>
                 /\ ret'.res = -EAGAIN
                 /\ ret'.data = <<>>
                 /\ given' = given
                 /\ Tty1'.ibuf = Edited(Tty1.ibuf, ret'.took)
                 /\ ~Tty1'.ibuf_eol
          /\ ret'.res > 0 => (Tty1.ibuf_eol \/ ~NoTerminator(ret'.took))]_vars

\* A cooked read found bytes already buffered, took more, and left a
\* non-empty unfinished line behind with -EAGAIN.
C29_Witness ==
    /\ ret.op = "tty_read"
    /\ HasFlag(ret.flags, TTY_COOKED)
    /\ ret.len0 > 0
    /\ ret.took # <<>>
    /\ ret.res = -EAGAIN
    /\ Tty1.ibuf # <<>>
    /\ ~Tty1.ibuf_eol

-----------------------------------------------------------------------------
(* The TTY on input that ends lines with ^D: a typed line closed by ^D,    *)
(* by two, by ^D before another line, and an edited line closed by ^D      *)

EofScripts ==
    {<<97, 98, CTRL_D>>,                                         \* "ab^D"
     <<97, 98, CTRL_D, CTRL_D>>,                                 \* "ab^D^D"
     <<97, 98, CTRL_D, 99, CH_NL>>,                              \* "ab^Dc\n"
     <<97, CH_BS, 98, 99, CTRL_D, CH_NL>>}                       \* "a\bbc^D\n"

InitCtrlD == \E w \in EofScripts : Booted(InitrdSbs, <<0>>, w)

SpecCtrlD == InitCtrlD /\ [][NextTTY]_vars

\* The bytes str end with ^D.
EofOf(str) == str # <<>> /\ str[Len(str)] = CTRL_D

\* The line that stood in the buffer when the ^D ending str came in.
EofLine(cur, str) == Edited(cur, SubSeq(str, 1, Len(str) - 1))

\* C30: in cooked mode, when a ^D comes in on a line of k > 0 bytes, "^D\n"
\* is echoed last if ECHO is set and nothing is echoed for it otherwise, the
\* end-of-file mark is not set, and the ^D is not stored: what the read
\* returns followed by what stays buffered is the k bytes, nothing appended,
\* and a read with room for k bytes returns exactly them and leaves the line
\* unmarked.  The read after such a read, when no byte has come in, returns
\* -EAGAIN; and a cooked read returns 0 only when it takes a ^D on an empty
\* line.
C30_CtrlDEndsLine ==
    [][CookedRead =>
          /\ (EofOf(ret'.took) /\ EofLine(Tty1.ibuf, ret'.took) # <<>>) =>
                 LET line == EofLine(Tty1.ibuf, ret'.took)
                     retct == UMIN(Len(line), ret'.count)
                 IN  /\ IF HasFlag(ret'.flags, TTY_ECHO)
                            THEN IsSuffix(S_EOFECHO, port_log')
                                 /\ Len(port_log') >= Len(port_log) + Len(S_EOFECHO)
                            ELSE port_log' = port_log
                     /\ ~Tty1'.ibuf_eof
                     /\ ret'.res = retct
                     /\ ret'.data = SubSeq(line, 1, retct)
                     /\ ret'.data \o Tty1'.ibuf = line
                     /\ Tty1'.ibuf_eol <=> retct < Len(line)
          /\ (/\ ret.op = "tty_read" /\ HasFlag(ret.flags, TTY_COOKED)
              /\ EofOf(ret.took) /\ ret.res > 0 /\ Tty1.ibuf = <<>>
              /\ ret'.took = <<>>) => ret'.res = -EAGAIN
          /\ ret'.res = 0 =>
                 EofOf(ret'.took) /\ EofLine(Tty1.ibuf, ret'.took) = <<>>]_vars

\* "ab^D" came in with ECHO and COOKED set: one read returned "ab", the
\* echo ended with "^D\n", and the read after it returned -EAGAIN.
C30_Witness ==
    /\ ret.op = "tty_read"
    /\ ret.flags = TTY_ECHO + TTY_COOKED
    /\ ret.res = -EAGAIN
    /\ ret.took = <<>>
    /\ ret.prev = 2
    /\ taken = <<97, 98, CTRL_D>>
    /\ given = <<97, 98>>
    /\ IsSuffix(S_EOFECHO, port_log)
    /\ Tty1.ibuf = <<>>
    /\ ~Tty1.ibuf_eof

-----------------------------------------------------------------------------
(* The TTY echoing one byte of any value, in raw mode, with ECHO and with  *)
(* ECHO and ECHOCTL                                                        *)

MaxByte == 255    \* the largest byte value that arrives

EchoFlags == {TTY_ECHO, TTY_ECHO + TTY_ECHOCTL}

InitEcho == \E b \in 0..MaxByte : Booted(InitrdSbs, <<0>>, <<b % 256>>)

NextEcho ==
    \/ TtyOpenDev(1, 1, TRUE)
    \/ \E fl \in EchoFlags : TtyIoctl(1, fl)
    \/ UartReceive
    \/ TtyRead(1, 1)

SpecEcho == InitEcho /\ [][NextEcho]_vars

\* The echo ECHOCTL owes for the byte b.
CaretEcho(b) ==
    IF b \in {CH_TAB, CH_NL, CH_CR} \/ isprint(b) THEN <<b>>
    ELSE IF 1 <= b /\ b <= 31 THEN <<94, b + 64>>
    ELSE IF b = CH_DEL THEN <<94, 63>>
    ELSE <<92, 120>> \o Hex02(b)

\* C31: a read of the TTY in raw mode with ECHO and ECHOCTL set that takes
\* the byte b echoes it as ECHOCTL owes: "^" and b + 0x40 for b in
\* 0x01..0x1f other than tab, newline and carriage return, "^?" for 0x7f,
\* the byte itself for tab, newline, carriage return and printable bytes,
\* and "\xNN" for every other byte.
C31_CaretEcho ==
    [][(/\ wire' = wire
        /\ ret'.op = "tty_read"
        /\ ret'.flags = TTY_ECHO + TTY_ECHOCTL
        /\ Len(ret'.took) = 1) =>
            port_log' = port_log \o CaretEcho(ret'.took[1])]_vars

-----------------------------------------------------------------------------
(* SpecHex: header fields decoded one by one, and the archives with a      *)
(* field that is no hex number mounted, opened, listed and stat'ed         *)

\* Where ImageBadSize and ImageBadMode stand in Disks.
BadSizeDisk == Len(Images) + 3
BadModeDisk == Len(Images) + 4

HexRamdisks ==
    {[BootRamdisks EXCEPT ![0] = [addr |-> d, rd_size |-> Len(Disks[d])]] :
        d \in {BadSizeDisk, BadModeDisk}}

HexFields ==
    {HexField(0, 8), HexField(171, 8), HexField(MODE_REG, 8),
     <<48, 48, 48, 48, 48, 48, 97, 66>>,                         \* "000000aB"
     <<55, 70, 70, 70, 70, 70, 70, 70>>,                         \* "7FFFFFFF"
     <<56, 48, 48, 48, 48, 48, 48, 48>>,                         \* "80000000"
     <<102, 102, 102, 102, 102, 102, 102, 102>>,                 \* "ffffffff"
     <<48, 48, 48, 48, 48, 48, 48, 71>>,                         \* "0000000G"
     <<32, 32, 32, 32, 32, 32, 32, 49>>}                         \* "       1"

InitHex == \E rds \in HexRamdisks : BootedOn(rds, NoSbs, <<>>, Handles)

NextHex ==
    \/ \E fld \in HexFields : NewcAtoi(fld)
    \/ FsMountdev(MAKEDEV(MAJ_RAMDISK, 0), FS_CPIO, S_ROOT)
    \/ \E pth \in {<<>>, S_BINHELLO} : FileOpenPath(1, S_ROOT, pth)
    \/ FileClose(1)
    \/ FileReaddir(1, 7)
    \/ FileStat(S_ROOT, S_BINHELLO, OldFstat)

SpecHex == InitHex /\ [][NextHex]_vars

\* The value of one hex digit, read off the digits' table.
DigitValue(c) ==
    LET lower == <<48, 49, 50, 51, 52, 53, 54, 55, 56, 57, 97, 98, 99, 100, 101, 102>>
        upper == <<48, 49, 50, 51, 52, 53, 54, 55, 56, 57, 65, 66, 67, 68, 69, 70>>
        at == {i \in 1..16 : lower[i] = c \/ upper[i] = c}
    IN  IF at = {} THEN -1 ELSE (CHOOSE i \in at : TRUE) - 1

AllHex(field) == \A i \in 1..Len(field) : DigitValue(field[i]) >= 0

\* The base-16 value of a field of hex digits: each digit times its weight.
RECURSIVE Pow16(_)
Pow16(n) == IF n = 0 THEN 1 ELSE 16 * Pow16(n - 1)

RECURSIVE WeightedSum(_, _)
WeightedSum(field, i) ==
    IF i > Len(field) THEN 0
    ELSE DigitValue(field[i]) * Pow16(Len(field) - i) + WeightedSum(field, i + 1)

\* v is the base-16 value of the field of 8 hex digits: its first digit
\* times 16^7 and the value of the other seven.
IsHexValue(v, field) ==
    /\ v >= 0
    /\ v \div Pow16(7) = DigitValue(field[1])
    /\ v % Pow16(7) = WeightedSum(Tail(field), 1)

\* C32: newc_atoi of a field of 8 hex digits is its base-16 value, and of a
\* field with another byte is -EINVAL; a mount of an archive whose "."
\* header has a c_filesize that is no hex number fails with -EINVAL, and so
\* no path is opened or stat'ed on it; on an archive whose "bin/hello"
\* header has a c_mode that is no hex number, opening or stat'ing bin/hello
\* fails with -EINVAL and readdir never hands the entry out.
C32_HexFields ==
    /\ ret.op = "newc_atoi" =>
           IF AllHex(ret.field) THEN IsHexValue(ret.res, ret.field)
           ELSE ret.res = -EINVAL
    /\ ramdisks[0].addr = BadSizeDisk =>
           /\ ret.op = "fs_mountdev" => ret.res = -EINVAL
           /\ ret.op \in {"file_open_path", "file_stat"} => ret.res < 0
    /\ ramdisks[0].addr = BadModeDisk =>
           /\ (ret.op \in {"file_open_path", "file_stat"} /\ ret.relpath = S_BINHELLO) =>
                  ret.res = -EINVAL
           /\ ret.op = "file_readdir" => ~(ret.res = 1 /\ ret.d_name = S_BINHELLO)

-----------------------------------------------------------------------------
(* SpecLongLine: tty 1 in cooked mode, a caller that reads again and again *)
(* as kshell_run does, and a line of IBUFSZ - 1 or of IBUFSZ bytes before  *)
(* its '\n' or ^D, arriving once the mode is set                           *)

LongLine(n, term) == [i \in 1..n |-> 97] \o <<term>>

LongLines ==
    {LongLine(IBUFSZ - 1, CH_NL), LongLine(IBUFSZ, CH_NL), LongLine(IBUFSZ, CTRL_D)}

InitLongLine == \E w \in LongLines : Booted(InitrdSbs, <<0>>, w)

\* A byte arrives; the UART holds no more than MaxRx.
ArriveCooked == ISCOOKED(ttys[1]) /\ Len(uart_rx) < MaxRx /\ UartReceive

\* The caller's read, with the count kshell_read_exec passes.
ShellRead == TtyRead(1, SH_LINEBUFSZ - 1)

NextLongLine ==
    \/ TtyOpenDev(1, 1, TRUE)
    \/ TtyIoctl(1, TTY_COOKED)
    \/ ArriveCooked
    \/ ShellRead

\* The caller's read would change nothing: no file is open, or the read
\* takes no byte, returns what the last read returned and leaves the TTY as
\* it is.  This is when <<ShellRead>>_vars is not enabled.
ReadIdle ==
    \/ ~Running
    \/ 1 \notin opened
    \/ /\ 1 \in opened
       /\ Let(tty_read(TheTty(files[1]), uart_rx, uart_tx, SH_LINEBUFSZ - 1), LAMBDA r :
              /\ r.tty = ttys[1]
              /\ r.rx = uart_rx
              /\ r.tx = uart_tx
              /\ r.echo = <<>> /\ r.taken = <<>> /\ r.data = <<>>
              /\ ret.op = "tty_read" /\ ret.h = 1
              /\ ret.res = r.res /\ ret.prev = r.res
              /\ ret.data = <<>> /\ ret.took = <<>>
              /\ ret.count = SH_LINEBUFSZ - 1
              /\ ret.flags = ttys[1].flags
              /\ ret.len0 = Len(ttys[1].ibuf))

\* The open and the mode are set once; bytes keep arriving while the UART
\* has room; the caller never stops reading (weak fairness of ShellRead,
\* written out with ReadIdle).
SpecLongLine ==
    /\ InitLongLine
    /\ [][NextLongLine]_vars
    /\ WF_vars(TtyOpenDev(1, 1, TRUE))
    /\ WF_vars(TtyIoctl(1, TTY_COOKED))
    /\ WF_vars(ArriveCooked)
    /\ ([]<>ReadIdle \/ []<><<ShellRead>>_vars)

\* C33: the input ends with a line terminator, and the caller keeps reading:
\* some read in cooked mode returns something other than -EAGAIN.
C33_NoWedge ==
    <>(ret.op = "tty_read" /\ HasFlag(ret.flags, TTY_COOKED) /\ ret.res # -EAGAIN)

-----------------------------------------------------------------------------
(* SpecTtyOpen: the TTY device opened with every minor from 0 to           *)
(* TTY_CT + 1 on two files, and closed again                               *)

NextTtyOpen ==
    \/ \E h \in Handles, min \in {0, 1, TTY_CT + 1}, ok \in BOOLEAN : TtyOpenDev(h, min, ok)
    \/ \E h \in Handles, junk \in BOOLEAN, ok \in BOOLEAN : TtyOpenDevBeyond(h, junk, ok)
    \/ \E h \in Handles : FileClose(h)

SpecTtyOpen == InitBoot /\ [][NextTtyOpen]_vars

\* C34: file_open_dev of a TTY minor succeeds only for a minor below TTY_CT
\* whose TTY has its port device open; for minor 0 and for every minor from
\* TTY_CT up it fails with -ENODEV, opens no file and leaves every TTY and
\* every serial unit as they were.
C34_TtyMinor ==
    [][(ret'.op = "file_open_dev" /\ files'[ret'.h].f_op = "tty") =>
          LET min == MINOR(files'[ret'.h].f_rdev)
          IN  /\ ret'.res >= 0 =>
                     /\ min < TTY_CT
                     /\ ttys'[min].initialized
                     /\ ttys'[min].portdev.f_op = "serial"
              /\ (min = 0 \/ min >= TTY_CT) =>
                     /\ ret'.res = -ENODEV
                     /\ opened' = opened
                     /\ ttys' = ttys
                     /\ serials' = serials]_vars

-----------------------------------------------------------------------------
(* Properties of the serial unit's self-test (SpecSerial)                   *)

\* C35: when serial_open_dev of a minor has failed with -EIO, the next
\* serial_open_dev of that minor runs the loopback test again: it returns 0
\* when the test passes and -EIO when it does not, and a file is opened on
\* the unit only when the test has passed.
C35_SelfTestRepeated ==
    [][(/\ ret.op = "serial_open_dev" /\ ret.res = -EIO
        /\ ret'.op = "serial_open_dev" /\ ret'.min = ret.min
        /\ ret' # ret) =>
            /\ ret'.res = IF ret'.loop_ok THEN 0 ELSE -EIO
            /\ ~ret'.loop_ok => opened' = opened]_vars

-----------------------------------------------------------------------------
(* SpecWriteAll: serial 1 written two bytes at a time, the first of every  *)
(* value, with OCRNL set and clear                                         *)

WriteSources == {<<b % 256, 97>> : b \in 0..MaxByte}

NextWriteAll ==
    \/ SerialOpenDev(1, 1, TRUE)
    \/ FileClose(1)
    \/ \E fl \in SerialFlags : SerialIoctl(1, fl)
    \/ \E src \in WriteSources : uart_tx = <<>> /\ SerialWrite(1, src)

SpecWriteAll == InitSerial /\ [][NextWriteAll]_vars

\* C36: a serial_write of count bytes returns count and has put count bytes
\* in the data register, one more for each '\n' when OCRNL is set, whatever
\* the values of the bytes.
C36_WriteAllBytes ==
    ret.op = "serial_write" =>
        /\ ret.res = Len(ret.src)
        /\ Len(uart_tx) - Len(ret.tx0) =
               Len(ret.src) + IF HasFlag(ret.flags, SRL_OCRNL) THEN Count(ret.src, CH_NL) ELSE 0
        /\ \A i \in 1..Len(ret.src) : \E j \in 1..Len(uart_tx) : uart_tx[j] = ret.src[i]

-----------------------------------------------------------------------------
(* SpecScan: archives that are cut short, lack the trailer or point past   *)
(* their end, mounted on "/", and paths opened and stat'ed on them         *)

\* Where ImageCut, ImageMidHeader, ImageMidName, ImageNoTrailer and
\* ImageBeyond stand in Disks.
ScanDisks == {Len(Images) + 1} \cup ((Len(Images) + 5)..(Len(Images) + 8))

ScanRamdisks ==
    {[BootRamdisks EXCEPT ![0] = [addr |-> d, rd_size |-> Len(Disks[d])]] : d \in ScanDisks}

ScanPaths == {<<>>, S_BINHELLO, S_HELLO, S_NOFILE}

InitScan == \E rds \in ScanRamdisks : BootedOn(rds, NoSbs, <<>>, Handles)

\* The archive is mounted once, as mount_initrd does.
NextScan ==
    \/ vfs_mount_list = <<>> /\ FsMountdev(MAKEDEV(MAJ_RAMDISK, 0), FS_CPIO, S_ROOT)
    \/ \E pth \in ScanPaths : FileOpenPath(1, S_ROOT, pth)
    \/ FileClose(1)
    \/ \E pth \in ScanPaths : FileStat(S_ROOT, pth, OldFstat)

SpecScan == InitScan /\ [][NextScan]_vars

\* C37: on every archive the scan ends: no mount, open or stat is left
\* scanning for ever; each returns a result.
C37_ScanTerminates ==
    ret.op \in {"fs_mountdev", "file_open_path", "file_stat"} => ~ret.hang


-----------------------------------------------------------------------------
(* End of directory *)

\* C38: once file_readdir on an open CPIO directory has returned 0, the
\* next file_readdir on that handle returns 0 as well: it neither yields an
\* entry nor fails.
C38_EndOfDirSticky ==
    [][(/\ ret.op = "file_readdir" /\ ret.res = 0 /\ ~ret.hang
        /\ IsCpio(ret.h) /\ files[ret.h].f_type = DT_DIR
        /\ ret'.op = "file_readdir" /\ ret'.h = ret.h
        /\ files' = files /\ opened' = opened) => ret'.res = 0]_vars

-----------------------------------------------------------------------------
(* SpecBoundary: "/" and "/bin" mounted in either order, and paths that    *)
(* continue the mountpath "/bin" with or without a '/'                      *)

S_BINARYX == <<47>> \o S_BIN \o <<97, 114, 121, 47, 120>>            \* "/binary/x"

BoundaryMounts ==
    {<<MAKEDEV(MAJ_RAMDISK, 0), S_ROOT>>, <<MAKEDEV(MAJ_RAMDISK, 1), S_SLBIN>>}

BoundaryPaths == {S_BINARYX, S_SLBINHELLO, S_SLBIN, S_SLSBIN, S_ROOT}

NextBoundary ==
    \/ \E a \in BoundaryMounts : FsMountdev(a[1], FS_CPIO, a[2])
    \/ \E pth \in BoundaryPaths : FileOpenPath(1, S_ROOT, pth)
    \/ FileClose(1)

SpecBoundary == InitBoot /\ [][NextBoundary]_vars

\* C39: the mount file_open_path selects for a path is selected at a path
\* component boundary: the path is the mountpath, or the mountpath ends with
\* '/', or the byte of the path that follows the mountpath is '/'.
C39_MountAtBoundary ==
    (ret.op = "file_open_path" /\ ret.sb >= 0) =>
        LET mp == superblocks[ret.sb].s_mountpath
            pa == ret.abspath
        IN  \/ pa = mp
            \/ (mp # <<>> /\ mp[Len(mp)] = 47)
            \/ (Len(pa) > Len(mp) /\ pa[Len(mp) + 1] = 47)

=============================================================================
